---------------------------- MODULE Spec2Model ----------------------------
(* MeetCat join-trigger scheduler: DaemonState (daemon.rs) and the command *)
(* handlers, schedule_join_trigger and the spawned timer task (lib.rs).    *)
(* Times are milliseconds.  Option<T> is a sequence: <<>> is None, <<x>>   *)
(* is Some(x).  Strings that are searched (titles, filters) are sequences  *)
(* of characters.                                                          *)
EXTENDS Integers, Sequences, FiniteSets, TLC

VARIABLES
    now,                  \* wall clock, Utc::now() in ms
    settings,             \* AppState.settings
    running,              \* DaemonState.running
    meetings,             \* DaemonState.meetings
    joined_meetings,      \* DaemonState.joined_meetings
    suppressed_meetings,  \* DaemonState suppressed map, as a set of <<call_id, closed_at_ms>>
    join_trigger_handle,  \* AppState.join_trigger_handle: 0 is None, n is the handle of tasks[n]
    tasks,                \* the tasks spawned by schedule_join_trigger, in spawn order
    main,                 \* position of the main thread, which runs every command handler,
                          \* and the arguments of the command it is running
    emit_count,           \* navigate-and-join emissions delivered, per call_id
    last_emit,            \* Option: the last NavigateAndJoinCommand delivered
    query,                \* Option: results of the three pure queries (query specification only)
    mutex,                \* the four mutexes of AppState: the thread that holds each, or "free"
    threads,              \* per thread: the code it runs, its position, the mutexes it holds
    logger,               \* AppState.logger: LogManager.enabled, level and rate_limits
    log_calls,            \* the write_entry calls made so far and what each one did
    check_loop            \* the task spawned by setup_daemon: position, check_id, interval

lock_vars == <<mutex, threads>>
log_vars == <<logger, log_calls>>
side_vars == <<lock_vars, log_vars, check_loop>>

vars == <<now, settings, running, meetings, joined_meetings, suppressed_meetings,
          join_trigger_handle, tasks, main, emit_count, last_emit, query, side_vars>>

-----------------------------------------------------------------------------
(* Bounds and program constants *)

MsPerMinute == 60000
GraceMinutes == 5

MaxNowMinutes == 2
MaxTasks == 2

TickMs == MsPerMinute

None == <<>>
Some(x) == <<x>>

CallIds == {"a", "b"}

TitleOpt == <<"O", "p", "t">>
TitleOps == <<"o", "p", "s">>
FilterOp == <<"O", "p">>

Url(call_id) == <<"https://meet.google.com/", call_id>>

Abs(x) == IF x < 0 THEN -x ELSE x

-----------------------------------------------------------------------------
(* Settings *)

MkSettings(j, x, f) ==
    [check_interval_seconds |-> 1, join_before_minutes |-> j,
     max_minutes_after_start |-> x, title_exclude_filters |-> f]

\* the settings Settings::load() finds at start
InitialSettings == MkSettings(1, 2, <<>>)

SettingsPool ==
    { MkSettings(1, 2, <<>>), MkSettings(0, 1, <<FilterOp>>) }

-----------------------------------------------------------------------------
(* Meeting records as the WebView reports them at time n *)

MkMeeting(id, title, begin, n) ==
    [call_id |-> id, url |-> Url(id), title |-> title, begin_time |-> begin,
     starts_in_minutes |-> (begin - n) \div MsPerMinute]

MeetingPool(n) ==
    { MkMeeting("a", TitleOpt, 1 * MsPerMinute, n),
      MkMeeting("b", TitleOps, 2 * MsPerMinute, n) }

MeetingLists(n) ==
    {<<>>} \cup { <<m>> : m \in MeetingPool(n) }
           \cup { l \in MeetingPool(n) \X MeetingPool(n) : l[1].call_id # l[2].call_id }

-----------------------------------------------------------------------------
(* DaemonState queries (daemon.rs) *)

\* a joined filter that lets every meeting through
NotJoined_ignored(m, joined) == TRUE

\* the closure |m| !self.joined_meetings.contains(&m.call_id) of the three queries
NotJoined(m, joined) == m.call_id \notin joined

\* ASCII lower case of the characters the titles use
Lower(ch) == IF ch = "O" THEN "o" ELSE ch

\* a substring test that ignores case
Contains_ignore_case(title, f) ==
    \E i \in 0..(Len(title) - Len(f)) :
        \A k \in 1..Len(f) : Lower(title[i + k]) = Lower(f[k])

\* str::contains: f occurs in title as a contiguous, case-sensitive substring
Contains(title, f) ==
    \E i \in 0..(Len(title) - Len(f)) : SubSeq(title, i + 1, i + Len(f)) = f

\* the title exclude closure shared by should_join_now and calculate_next_trigger
TitleExcluded(m, s) ==
    \E k \in 1..Len(s.title_exclude_filters) : Contains(m.title, s.title_exclude_filters[k])

\* a minimum that returns the last minimal element
MinByKey_last(I, key) ==
    IF I = {} THEN 0
    ELSE CHOOSE i \in I : \A k \in I : key[i] < key[k] \/ (key[i] = key[k] /\ i >= k)

\* Iterator::min_by_key over the surviving indices: the first minimal element
MinByKey(I, key) ==
    IF I = {} THEN 0
    ELSE CHOOSE i \in I : \A k \in I : key[i] < key[k] \/ (key[i] = key[k] /\ i <= k)

\* a lateness test that keeps a meeting exactly max_minutes_after_start late
TriggerCandidate_inclusive(m, s, n) ==
    LET join_before_ms == s.join_before_minutes * 60 * 1000
        max_after_start_ms == s.max_minutes_after_start * 60 * 1000
        delay_ms == m.begin_time - join_before_ms - n
    IN  IF delay_ms > 0 THEN Some(delay_ms)
        ELSE IF n - m.begin_time <= max_after_start_ms THEN Some(0)
        ELSE None

\* the filter_map closure of calculate_next_trigger: Some(delay) or None
TriggerCandidate(m, s, n) ==
    LET join_before_ms == s.join_before_minutes * 60 * 1000
        max_after_start_ms == s.max_minutes_after_start * 60 * 1000
        trigger_time_ms == m.begin_time - join_before_ms
        delay_ms == trigger_time_ms - n
        time_since_start == n - m.begin_time
    IN  IF delay_ms > 0 THEN Some(delay_ms)
        ELSE IF time_since_start < max_after_start_ms THEN Some(0)
        ELSE None

calculate_next_trigger(ms, joined, s, n) ==
    LET I == { i \in 1..Len(ms) :
                 /\ NotJoined(ms[i], joined)
                 /\ ~TitleExcluded(ms[i], s)
                 /\ TriggerCandidate(ms[i], s, n) # None }
        key == [i \in I |-> TriggerCandidate(ms[i], s, n)[1]]
        best == MinByKey(I, key)
    IN  IF best = 0 THEN None
        ELSE Some([meeting |-> ms[best], delay_ms |-> key[best]])

\* a join window that is open at both ends
should_join_now_exclusive(ms, joined, s) ==
    LET join_threshold == s.join_before_minutes
        max_after_start == s.max_minutes_after_start
        I == { i \in 1..Len(ms) :
                 /\ NotJoined(ms[i], joined)
                 /\ ~TitleExcluded(ms[i], s)
                 /\ ms[i].starts_in_minutes < join_threshold
                 /\ ms[i].starts_in_minutes > -max_after_start }
        key == [i \in I |-> Abs(ms[i].starts_in_minutes)]
        best == MinByKey(I, key)
    IN  IF best = 0 THEN None ELSE Some(ms[best])

should_join_now(ms, joined, s) ==
    LET join_threshold == s.join_before_minutes
        max_after_start == s.max_minutes_after_start
        I == { i \in 1..Len(ms) :
                 /\ NotJoined(ms[i], joined)
                 /\ ~TitleExcluded(ms[i], s)
                 /\ ms[i].starts_in_minutes <= join_threshold
                 /\ ms[i].starts_in_minutes >= -max_after_start }
        key == [i \in I |-> Abs(ms[i].starts_in_minutes)]
        best == MinByKey(I, key)
    IN  IF best = 0 THEN None ELSE Some(ms[best])

\* a display query that returns the first listed meeting that qualifies
get_next_meeting_first(ms, joined, n) ==
    LET I == { i \in 1..Len(ms) :
                 /\ NotJoined(ms[i], joined)
                 /\ ms[i].begin_time > n - GraceMinutes * MsPerMinute }
        key == [i \in I |-> i]
        best == MinByKey(I, key)
    IN  IF best = 0 THEN None ELSE Some(ms[best])

get_next_meeting(ms, joined, n) ==
    LET I == { i \in 1..Len(ms) :
                 /\ NotJoined(ms[i], joined)
                 /\ ms[i].begin_time > n - GraceMinutes * MsPerMinute }
        key == [i \in I |-> ms[i].begin_time]
        best == MinByKey(I, key)
    IN  IF best = 0 THEN None ELSE Some(ms[best])

\* is_running
is_running(r) == r

\* DaemonState::start
start(r) == TRUE

\* a stop that leaves the flag as it is
stop_noop(r) == r

\* DaemonState::stop
stop(r) == FALSE

\* an update that keeps the meetings of the previous list the new one lacks
update_meetings_merge(ms, l) ==
    l \o SelectSeq(ms, LAMBDA m : \A i \in 1..Len(l) : l[i].call_id # m.call_id)

\* self.meetings = meetings
update_meetings(ms, l) == l

\* self.meetings.clone()
get_meetings(ms) == ms

\* an insert that removes an id that is already present
mark_joined_toggle(joined, call_id) ==
    IF call_id \in joined THEN joined \ {call_id} ELSE joined \cup {call_id}

\* joined_meetings.insert(call_id)
mark_joined(joined, call_id) == joined \cup {call_id}

\* a reset that leaves the set as it is
clear_joined_noop(joined) == joined

\* joined_meetings.clear()
clear_joined(joined) == {}

-----------------------------------------------------------------------------
(* State after construction: AppState::default, DaemonState::default, and  *)
(* the daemon started by run()'s setup.  The command handlers are          *)
(* synchronous commands: they all run on the main thread, one at a time,   *)
(* and interleave with the spawned timer tasks wherever they hold no lock. *)

Idle == [pc |-> "idle", op |-> "none", scheduled |-> FALSE, arg |-> <<>>]

\* the four Mutex fields of AppState
Mutexes == {"settings", "daemon", "join_trigger_handle", "logger"}

\* the threads that lock them: the main thread, which runs the commands, the
\* task of the check loop, and the timer tasks
ThreadIds ==
    {<<"main", 0>>, <<"check", 0>>} \cup { <<"timer", i>> : i \in 1..MaxTasks }

IdleThread == [op |-> "none", path |-> <<>>, pc |-> 1, held |-> <<>>]

\* LogManager::new without a tauri section in the settings: collection off,
\* level Info, no rate-limit state
NewLogManager ==
    [enabled |-> FALSE, level |-> "Info", last_cleanup_ms |-> 0, rate_limits |-> <<>>]

\* the check loop before its first iteration: check_id = 0
NewCheckLoop ==
    [pc |-> "read", check_id |-> 0, interval_seconds |-> 0, wake_at |-> 0,
     emitted |-> None]

\* AppState::default for the mutexes and the logger, and the tasks before
\* their first step
InitSide ==
    /\ mutex = [m \in Mutexes |-> None]
    /\ threads = [t \in ThreadIds |-> IdleThread]
    /\ logger = NewLogManager
    /\ log_calls = <<>>
    /\ check_loop = NewCheckLoop

Init ==
    /\ now = 0
    /\ settings = InitialSettings
    /\ running = TRUE
    /\ meetings = <<>>
    /\ joined_meetings = {}
    /\ suppressed_meetings = {}
    /\ join_trigger_handle = 0
    /\ tasks = <<>>
    /\ main = Idle
    /\ emit_count = [c \in CallIds |-> 0]
    /\ last_emit = None
    /\ query = None
    /\ InitSide

daemon_vars == <<running, meetings, joined_meetings, suppressed_meetings>>
timer_vars == <<join_trigger_handle, tasks>>
emit_vars == <<emit_count, last_emit>>

-----------------------------------------------------------------------------
(* The wall clock *)

Tick ==
    /\ now < MaxNowMinutes * MsPerMinute
    /\ now' = now + TickMs
    /\ UNCHANGED <<side_vars, settings, daemon_vars, timer_vars, main, emit_vars, query>>

-----------------------------------------------------------------------------
(* Commands that do not reschedule *)

save_settings ==
    /\ main.pc = "idle"
    /\ \E s \in SettingsPool : settings' = s
    /\ UNCHANGED <<side_vars, now, daemon_vars, timer_vars, main, emit_vars, query>>

start_daemon ==
    /\ main.pc = "idle"
    /\ running' = start(running)
    /\ UNCHANGED <<side_vars, now, settings, meetings, joined_meetings, suppressed_meetings,
                   timer_vars, main, emit_vars, query>>

stop_daemon ==
    /\ main.pc = "idle"
    /\ running' = stop(running)
    /\ UNCHANGED <<side_vars, now, settings, meetings, joined_meetings, suppressed_meetings,
                   timer_vars, main, emit_vars, query>>

-----------------------------------------------------------------------------
(* The spawned timer task.  pc: "pending" (spawned, sleeping or not yet    *)
(* polled past the sleep), "running" (past its last await point),          *)
(* "marked" (mark_joined done, daemon lock released), "done", "cancelled". *)

NewTask(trigger, s, n) ==
    [call_id |-> trigger.meeting.call_id,
     url |-> trigger.meeting.url,
     settings |-> Some(s),
     wake_at |-> n + trigger.delay_ms,
     pc |-> "pending",
     abort_requested |-> FALSE]

\* a task that has ended keeps nothing but how it ended
Ended(task, how) ==
    [call_id |-> "", url |-> <<>>, settings |-> None, wake_at |-> 0,
     pc |-> how, abort_requested |-> FALSE]

\* an abort that turns every task, also a completed one, into a cancelled one
AbortTask_any(task) == Ended(task, "cancelled")

\* JoinHandle::abort: the task is dropped at its next await point; a task
\* that is past the sleep has none left and runs to completion
AbortTask(task) ==
    IF task.pc = "pending" THEN Ended(task, "cancelled")
    ELSE IF task.pc \in {"done", "cancelled"} THEN task
    ELSE [task EXCEPT !.abort_requested = TRUE]

\* a sleep that is only ever woken at the very instant it expires
TimerWake_exact_instant(i) ==
    /\ tasks[i].pc = "pending"
    /\ now = tasks[i].wake_at
    /\ tasks' = [tasks EXCEPT ![i].pc = "running"]
    /\ UNCHANGED <<side_vars, now, settings, daemon_vars, join_trigger_handle, main, emit_vars, query>>

\* tokio::time::sleep(delay_ms) has elapsed (or delay_ms = 0) and the task is polled
TimerWake(i) ==
    /\ tasks[i].pc = "pending"
    /\ now >= tasks[i].wake_at
    /\ tasks' = [tasks EXCEPT ![i].pc = "running"]
    /\ UNCHANGED <<side_vars, now, settings, daemon_vars, join_trigger_handle, main, emit_vars, query>>

\* daemon.lock(); daemon.mark_joined(&call_id)
TaskMarkJoined(i) ==
    /\ tasks[i].pc = "running"
    /\ joined_meetings' = mark_joined(joined_meetings, tasks[i].call_id)
    /\ tasks' = [tasks EXCEPT ![i].pc = "marked"]
    /\ UNCHANGED <<side_vars, now, settings, running, meetings, suppressed_meetings,
                   join_trigger_handle, main, emit_vars, query>>

\* a handler that sends the settings current when it fires
TaskEmit_current_settings(i, ok) ==
    /\ tasks[i].pc = "marked"
    /\ last_emit' = IF ok THEN Some([url |-> tasks[i].url, settings |-> settings])
                    ELSE last_emit
    /\ emit_count' = IF ok THEN [emit_count EXCEPT ![tasks[i].call_id] = @ + 1]
                     ELSE emit_count
    /\ tasks' = [tasks EXCEPT ![i] = Ended(tasks[i], "done")]
    /\ UNCHANGED <<side_vars, now, settings, daemon_vars, join_trigger_handle, main, query>>

\* a handler that takes its meeting out of the joined set when the emit fails
TaskEmit_failure_unmarks(i, ok) ==
    /\ tasks[i].pc = "marked"
    /\ last_emit' = IF ok THEN Some([url |-> tasks[i].url, settings |-> tasks[i].settings[1]])
                    ELSE last_emit
    /\ emit_count' = IF ok THEN [emit_count EXCEPT ![tasks[i].call_id] = @ + 1]
                     ELSE emit_count
    /\ joined_meetings' = IF ok THEN joined_meetings ELSE joined_meetings \ {tasks[i].call_id}
    /\ tasks' = [tasks EXCEPT ![i] = Ended(tasks[i], "done")]
    /\ UNCHANGED <<side_vars, now, settings, running, meetings, suppressed_meetings,
                   join_trigger_handle, main, query>>

\* a handler that arms a new action for its meeting when the emit fails
TaskEmit_retries(i, ok) ==
    /\ tasks[i].pc = "marked"
    /\ last_emit' = IF ok THEN Some([url |-> tasks[i].url, settings |-> tasks[i].settings[1]])
                    ELSE last_emit
    /\ emit_count' = IF ok THEN [emit_count EXCEPT ![tasks[i].call_id] = @ + 1]
                     ELSE emit_count
    /\ LET ended == [tasks EXCEPT ![i] = Ended(tasks[i], "done")]
       IN  IF ~ok /\ Len(tasks) < MaxTasks
           THEN /\ tasks' = Append(ended, [tasks[i] EXCEPT !.pc = "pending"])
                /\ join_trigger_handle' = Len(tasks) + 1
           ELSE /\ tasks' = ended
                /\ join_trigger_handle' = join_trigger_handle
    /\ UNCHANGED <<side_vars, now, settings, daemon_vars, main, query>>

\* a handler that emits first and never marks its meeting joined
TaskEmit_before_mark(i, ok) ==
    /\ tasks[i].pc = "running"
    /\ last_emit' = IF ok THEN Some([url |-> tasks[i].url, settings |-> tasks[i].settings[1]])
                    ELSE last_emit
    /\ emit_count' = IF ok THEN [emit_count EXCEPT ![tasks[i].call_id] = @ + 1]
                     ELSE emit_count
    /\ tasks' = [tasks EXCEPT ![i] = Ended(tasks[i], "done")]
    /\ UNCHANGED <<side_vars, now, settings, daemon_vars, join_trigger_handle, main, query>>

\* a handler that, after emitting, cancels the slot and arms the next trigger itself
TaskEmit_reschedules(i, ok) ==
    /\ tasks[i].pc = "marked"
    /\ last_emit' = IF ok THEN Some([url |-> tasks[i].url, settings |-> tasks[i].settings[1]])
                    ELSE last_emit
    /\ emit_count' = IF ok THEN [emit_count EXCEPT ![tasks[i].call_id] = @ + 1]
                     ELSE emit_count
    /\ LET ended == [tasks EXCEPT ![i] = Ended(tasks[i], "done")]
           cancelled == IF join_trigger_handle = 0 THEN ended
                        ELSE [ended EXCEPT ![join_trigger_handle] = AbortTask(@)]
           trigger == calculate_next_trigger(meetings, joined_meetings, settings, now)
       IN  IF trigger # None /\ Len(tasks) < MaxTasks
           THEN /\ tasks' = Append(cancelled, NewTask(trigger[1], settings, now))
                /\ join_trigger_handle' = Len(tasks) + 1
           ELSE /\ tasks' = cancelled
                /\ join_trigger_handle' = 0
    /\ UNCHANGED <<side_vars, now, settings, daemon_vars, main, query>>

\* app_handle.emit("navigate-and-join", &cmd); an Err is only printed
TaskEmit(i, ok) ==
    /\ tasks[i].pc = "marked"
    /\ last_emit' = IF ok THEN Some([url |-> tasks[i].url, settings |-> tasks[i].settings[1]])
                    ELSE last_emit
    /\ emit_count' = IF ok THEN [emit_count EXCEPT ![tasks[i].call_id] = @ + 1]
                     ELSE emit_count
    /\ tasks' = [tasks EXCEPT ![i] = Ended(tasks[i], "done")]
    /\ UNCHANGED <<side_vars, now, settings, daemon_vars, join_trigger_handle, main, query>>

-----------------------------------------------------------------------------
(* schedule_join_trigger (lib.rs) *)

\* handle.take() and h.abort()
CancelExisting(ts, h) ==
    IF h = 0 THEN ts ELSE [ts EXCEPT ![h] = AbortTask(ts[h])]

\* what handle.take() found in the slot: nothing to cancel, or the handle of
\* a task that has already completed
SlotFound(ts, h) ==
    IF h # 0 /\ ts[h].pc = "done" THEN <<"completed">> ELSE <<>>

\* the whole function: the settings snapshot, then everything else under the
\* daemon lock taken at its top; main.arg keeps what the call found in the slot
schedule_join_trigger ==
    /\ main.pc = "schedule"
    /\ LET cancelled == CancelExisting(tasks, join_trigger_handle)
           trigger == calculate_next_trigger(meetings, joined_meetings, settings, now)
       IN  IF trigger # None
           THEN /\ Len(tasks) < MaxTasks
                /\ tasks' = Append(cancelled, NewTask(trigger[1], settings, now))
                /\ join_trigger_handle' = Len(tasks) + 1
           ELSE /\ tasks' = cancelled
                /\ join_trigger_handle' = 0
    /\ main' = [main EXCEPT !.pc = "finish", !.scheduled = TRUE,
                             !.arg = SlotFound(tasks, join_trigger_handle)]
    /\ UNCHANGED <<side_vars, now, settings, daemon_vars, emit_vars, query>>

-----------------------------------------------------------------------------
(* Command handlers that reschedule (lib.rs) *)

StartCommand(op) == [pc |-> "schedule", op |-> op, scheduled |-> FALSE, arg |-> <<>>]

\* a list update that also forgets the joined ids the new list no longer has
meetings_updated_prunes_joined ==
    /\ main.pc = "idle"
    /\ \E l \in MeetingLists(now) :
         /\ meetings' = update_meetings(meetings, l)
         /\ joined_meetings' = { c \in joined_meetings : \E i \in 1..Len(l) : l[i].call_id = c }
    /\ main' = StartCommand("meetings_updated")
    /\ UNCHANGED <<side_vars, now, settings, running, suppressed_meetings, timer_vars, emit_vars, query>>

\* daemon.update_meetings(meetings), to be followed by schedule_join_trigger
meetings_updated ==
    /\ main.pc = "idle"
    /\ \E l \in MeetingLists(now) : meetings' = update_meetings(meetings, l)
    /\ main' = StartCommand("meetings_updated")
    /\ UNCHANGED <<side_vars, now, settings, running, joined_meetings, suppressed_meetings,
                   timer_vars, emit_vars, query>>

\* daemon.mark_joined(&call_id), to be followed by schedule_join_trigger
meeting_joined ==
    /\ main.pc = "idle"
    /\ \E c \in CallIds :
         /\ joined_meetings' = mark_joined(joined_meetings, c)
         /\ main' = [StartCommand("meeting_joined") EXCEPT !.arg = <<c>>]
    /\ UNCHANGED <<side_vars, now, settings, running, meetings, suppressed_meetings,
                   timer_vars, emit_vars, query>>

\* DaemonState::mark_suppressed: the map entry for call_id is set to closed_at_ms
mark_suppressed(sup, call_id, closed_at_ms) ==
    { e \in sup : e[1] # call_id } \cup { <<call_id, closed_at_ms>> }

\* a close test that needs the close to be strictly after the trigger time
CloseMeeting_strict(sup, ms, s, call_id, closed_at_ms) ==
    LET I == { i \in 1..Len(ms) : ms[i].call_id = call_id }
        first == CHOOSE i \in I : \A k \in I : i <= k
        computed_trigger_at_ms == ms[first].begin_time - s.join_before_minutes * 60 * 1000
    IN  IF I # {} /\ closed_at_ms > computed_trigger_at_ms
        THEN mark_suppressed(sup, call_id, closed_at_ms)
        ELSE sup

\* the settings snapshot and the block under the daemon lock: find the
\* meeting, compare the close time with its trigger time
CloseMeeting(sup, ms, s, call_id, closed_at_ms) ==
    LET I == { i \in 1..Len(ms) : ms[i].call_id = call_id }
        first == CHOOSE i \in I : \A k \in I : i <= k
        computed_trigger_at_ms == ms[first].begin_time - s.join_before_minutes * 60 * 1000
    IN  IF I # {} /\ closed_at_ms >= computed_trigger_at_ms
        THEN mark_suppressed(sup, call_id, closed_at_ms)
        ELSE sup

\* the closed_at_ms a close notification can carry when it is handled at n:
\* the frontend's timestamp, taken at n or just before
ClosedAtTimes(n) == {n - 1, n}

\* a close handler that returns at once when no meeting matches call_id
meeting_closed_early_return ==
    /\ main.pc = "idle"
    /\ \E c \in CallIds, t \in ClosedAtTimes(now) :
         /\ suppressed_meetings' = CloseMeeting(suppressed_meetings, meetings, settings, c, t)
         /\ main' = IF \E i \in 1..Len(meetings) : meetings[i].call_id = c
                    THEN [StartCommand("meeting_closed") EXCEPT !.arg = <<c, t>>]
                    ELSE [pc |-> "finish", op |-> "meeting_closed", scheduled |-> FALSE,
                          arg |-> <<>>]
    /\ UNCHANGED <<side_vars, now, settings, running, meetings, joined_meetings,
                   timer_vars, emit_vars, query>>

\* a close handler that also marks the closed meeting joined
meeting_closed_marks_joined ==
    /\ main.pc = "idle"
    /\ \E c \in CallIds, t \in ClosedAtTimes(now) :
         /\ suppressed_meetings' = CloseMeeting(suppressed_meetings, meetings, settings, c, t)
         /\ joined_meetings' = IF suppressed_meetings' # suppressed_meetings
                                THEN mark_joined(joined_meetings, c) ELSE joined_meetings
         /\ main' = [StartCommand("meeting_closed") EXCEPT !.arg = <<c, t>>]
    /\ UNCHANGED <<side_vars, now, settings, running, meetings, timer_vars, emit_vars, query>>

meeting_closed ==
    /\ main.pc = "idle"
    /\ \E c \in CallIds, t \in ClosedAtTimes(now) :
         /\ suppressed_meetings' = CloseMeeting(suppressed_meetings, meetings, settings, c, t)
         /\ main' = [StartCommand("meeting_closed") EXCEPT !.arg = <<c, t>>]
    /\ UNCHANGED <<side_vars, now, settings, running, meetings, joined_meetings,
                   timer_vars, emit_vars, query>>

\* the handler's tail after schedule_join_trigger: the tray refresh (which
\* only reads), then the return
FinishCommand ==
    /\ main.pc = "finish"
    /\ main' = Idle
    /\ UNCHANGED <<side_vars, now, settings, daemon_vars, timer_vars, emit_vars, query>>

-----------------------------------------------------------------------------

Next ==
    \/ Tick
    \/ save_settings
    \/ start_daemon
    \/ stop_daemon
    \/ meetings_updated
    \/ meeting_joined
    \/ meeting_closed
    \/ schedule_join_trigger
    \/ FinishCommand
    \/ \E i \in 1..Len(tasks) : TimerWake(i)
    \/ \E i \in 1..Len(tasks) : TaskMarkJoined(i)
    \/ \E i \in 1..Len(tasks), ok \in BOOLEAN : TaskEmit(i, ok)

Spec == Init /\ [][Next]_vars

NextTimer ==
    \/ Tick
    \/ save_settings
    \/ meetings_updated
    \/ meeting_joined
    \/ schedule_join_trigger
    \/ FinishCommand
    \/ \E i \in 1..Len(tasks) : TimerWake(i)
    \/ \E i \in 1..Len(tasks) : TaskMarkJoined(i)
    \/ \E i \in 1..Len(tasks), ok \in BOOLEAN : TaskEmit(i, ok)

\* the scheduler and its timer tasks under list updates, join notifications
\* and preference changes
SpecTimer == Init /\ [][NextTimer]_vars

\* SpecTimer with the scheduling the runtime provides: the clock advances,
\* and the multi-threaded tokio runtime polls a spawned task whose sleep has
\* expired and keeps running a task that has no await point left
SpecTimerFair ==
    /\ SpecTimer
    /\ WF_vars(Tick)
    /\ \A i \in 1..MaxTasks :
         /\ WF_vars(i <= Len(tasks) /\ TimerWake(i))
         /\ WF_vars(i <= Len(tasks) /\ TaskMarkJoined(i))
         /\ WF_vars(i <= Len(tasks) /\ \E ok \in BOOLEAN : TaskEmit(i, ok))

\* SpecTimer started from a settings file with a join window of two
\* minutes: one before the start of a meeting and one after it
LateSettings == MkSettings(1, 1, <<>>)

InitLate ==
    /\ now = 0
    /\ settings = LateSettings
    /\ running = TRUE
    /\ meetings = <<>>
    /\ joined_meetings = {}
    /\ suppressed_meetings = {}
    /\ join_trigger_handle = 0
    /\ tasks = <<>>
    /\ main = Idle
    /\ emit_count = [c \in CallIds |-> 0]
    /\ last_emit = None
    /\ query = None
    /\ InitSide

SpecLate == InitLate /\ [][NextTimer]_vars

-----------------------------------------------------------------------------
(* Claims about the scheduler, under Spec and SpecTimer *)

Live(task) == task.pc \in {"pending", "running", "marked"}

SuppressedIds == { e[1] : e \in suppressed_meetings }

\* C1: the navigate-and-join instruction is emitted at most once for every
\* call_id (the joined set is never reset: no command calls clear_joined).
C1_EmittedAtMostOnce ==
    \A c \in CallIds : emit_count[c] <= 1

\* C2: in every reachable state at most one join action is outstanding, that
\* is armed and neither finished nor cancelled.
C2_AtMostOneOutstanding ==
    Cardinality({ i \in 1..Len(tasks) : Live(tasks[i]) }) <= 1

\* C3: once schedule_join_trigger has requested cancellation of an action
\* (handle.take() and abort()), that action's handler takes no further step:
\* it neither marks its meeting joined nor emits navigate-and-join.
C3_CancelledNeverExecutes ==
    [][\A i \in 1..Len(tasks) : tasks[i].abort_requested => tasks'[i] = tasks[i]]_vars

\* C4: after every schedule_join_trigger call the only action that can still
\* fire is the one that call armed, and it targets the meeting and the delay
\* that calculate_next_trigger returned in that call; if the call found no
\* trigger, no action is armed.
C4_LastRescheduleWins ==
    [][ /\ \A i \in 1..Len(tasks') : Live(tasks'[i]) => i = join_trigger_handle'
        /\ (main.pc = "schedule" /\ main'.pc = "finish") =>
             LET trigger == calculate_next_trigger(meetings, joined_meetings, settings, now)
             IN  IF trigger = None THEN join_trigger_handle' = 0
                 ELSE /\ join_trigger_handle' = Len(tasks')
                      /\ tasks'[join_trigger_handle'].call_id = trigger[1].meeting.call_id
                      /\ tasks'[join_trigger_handle'].wake_at = now + trigger[1].delay_ms
                      /\ tasks'[join_trigger_handle'].pc = "pending" ]_vars

\* C6: once meeting_closed has recorded a close at or after a meeting's trigger
\* time, no later schedule_join_trigger call arms a join action for that call_id.
C6_ClosedNeverRearmed ==
    [][\A k \in (Len(tasks) + 1)..Len(tasks') : tasks'[k].call_id \notin SuppressedIds]_vars

\* C7: every emission of navigate-and-join for a meeting is preceded by a
\* state in which that meeting's call_id is in the joined set.
C7_MarkedBeforeEmit ==
    [][\A c \in CallIds : emit_count'[c] > emit_count[c] => c \in joined_meetings]_vars

\* an action has fired: its meeting is joined and its instruction was delivered
C7_Witness ==
    \E c \in CallIds : emit_count[c] = 1 /\ c \in joined_meetings

C9_HandlersReschedule ==
    [][ /\ (main.pc = "idle" /\ main'.pc # "idle") =>
             (main'.pc = "schedule" /\ ~main'.scheduled
              /\ main'.op \in {"meetings_updated", "meeting_joined", "meeting_closed"})
        /\ (main.pc = "schedule" /\ main'.pc # "schedule") =>
             (main'.pc = "finish" /\ main'.scheduled /\ main'.op = main.op)
        /\ (main.pc # "idle" /\ main'.pc = "idle") =>
             (main.pc = "finish" /\ main.scheduled) ]_vars

\* meeting_closed for a call_id that matches no meeting has made its
\* schedule_join_trigger call and is about to return
C9_Witness ==
    /\ main.pc = "finish"
    /\ main.op = "meeting_closed"
    /\ main.scheduled
    /\ meetings = <<>>
    /\ suppressed_meetings = {}

\* C15: a call_id that is in the joined set stays there through every step:
\* list updates (also ones that no longer list it), join notifications, close
\* notifications, start/stop, preference changes and timer firings; no
\* command calls clear_joined.
C15_JoinedIsPermanent ==
    [][joined_meetings \subseteq joined_meetings']_vars

\* a joined call_id that the current list no longer has, after a close was
\* recorded and the daemon was stopped
C15_Witness ==
    /\ main.pc = "idle"
    /\ ~running
    /\ suppressed_meetings # {}
    /\ \E c \in joined_meetings :
         /\ emit_count[c] = 1
         /\ \A i \in 1..Len(meetings) : meetings[i].call_id # c

\* the first step of the meeting_closed command whose arguments are in main'.arg
ClosedStep ==
    main.pc = "idle" /\ main'.pc = "schedule" /\ main'.op = "meeting_closed"

\* C16: meeting_closed(call_id, closed_at_ms) sets the suppressed entry of
\* call_id to closed_at_ms if and only if a meeting with that call_id is in
\* the list and closed_at_ms >= begin_time - join_before_minutes*60000, with
\* the settings of the start of the call; otherwise suppressed is unchanged.
C16_ClosedRecordedIff ==
    [][ClosedStep =>
          LET c == main'.arg[1]
              t == main'.arg[2]
              listed == \E i \in 1..Len(meetings) :
                           /\ meetings[i].call_id = c
                           /\ t >= meetings[i].begin_time
                                      - settings.join_before_minutes * MsPerMinute
          IN  /\ listed => /\ <<c, t>> \in suppressed_meetings'
                           /\ \A e \in suppressed_meetings' : e[1] = c => e = <<c, t>>
              /\ ~listed => suppressed_meetings' = suppressed_meetings
              /\ \A e \in suppressed_meetings \cup suppressed_meetings' :
                    e[1] # c => (e \in suppressed_meetings <=> e \in suppressed_meetings') ]_vars

\* a close exactly at the trigger time has been recorded with its timestamp
C16_Witness ==
    /\ main.pc = "schedule"
    /\ main.op = "meeting_closed"
    /\ \E i \in 1..Len(meetings) :
         /\ meetings[i].call_id = main.arg[1]
         /\ main.arg[2] = meetings[i].begin_time - settings.join_before_minutes * MsPerMinute
    /\ <<main.arg[1], main.arg[2]>> \in suppressed_meetings

\* C17: in every reachable state every suppressed call_id is in the joined set.
C17_SuppressedAreJoined ==
    SuppressedIds \subseteq joined_meetings

\* C18: the close handling of meeting_closed changes neither the joined set
\* nor the meeting list; of the store only suppressed may change.
C18_CloseFrame ==
    [][ClosedStep => /\ joined_meetings' = joined_meetings
                     /\ meetings' = meetings
                     /\ running' = running ]_vars

\* a close has just been recorded for a meeting that is not joined
C18_Witness ==
    /\ main.pc = "schedule"
    /\ main.op = "meeting_closed"
    /\ <<main.arg[1], main.arg[2]>> \in suppressed_meetings
    /\ main.arg[1] \notin joined_meetings
    /\ meetings # <<>>

\* the results of the three queries on a store
Queries(ms, joined, s, n) ==
    [trigger |-> calculate_next_trigger(ms, joined, s, n),
     join_now |-> should_join_now(ms, joined, s),
     next |-> get_next_meeting(ms, joined, n)]

\* C19: mark_joined is idempotent: in every store state and for every call_id
\* a second mark_joined(id) leaves the joined set as the first left it; a step
\* that marks an id that is already joined (a meeting_joined notification, or
\* the mark_joined of a timer task) leaves the joined set, the meeting list
\* and the results of the three queries as they were, and meeting_joined
\* changes nothing else of the store.
C19_MarkJoinedIdempotent ==
    [][ /\ \A c \in CallIds :
             LET once == mark_joined(joined_meetings, c)
             IN  c \in once /\ mark_joined(once, c) = once
        /\ \A i \in 1..Len(tasks) :
             (tasks[i].pc = "running" /\ tasks'[i].pc = "marked") =>
                /\ tasks[i].call_id \in joined_meetings'
                /\ meetings' = meetings
                /\ tasks[i].call_id \in joined_meetings =>
                      /\ joined_meetings' = joined_meetings
                      /\ Queries(meetings', joined_meetings', settings', now')
                           = Queries(meetings, joined_meetings, settings, now)
        /\ (main.pc = "idle" /\ main'.pc = "schedule" /\ main'.op = "meeting_joined") =>
             /\ main'.arg[1] \in joined_meetings'
             /\ main'.arg[1] \in joined_meetings =>
                   /\ joined_meetings' = joined_meetings
                   /\ Queries(meetings', joined_meetings', settings', now')
                        = Queries(meetings, joined_meetings, settings, now)
             /\ meetings' = meetings
             /\ suppressed_meetings' = suppressed_meetings
             /\ running' = running ]_vars

\* a second notification for a joined meeting that is still in the list
C19_Witness ==
    /\ main.pc = "schedule"
    /\ main.op = "meeting_joined"
    /\ main.arg[1] \in joined_meetings
    /\ emit_count[main.arg[1]] = 1
    /\ \E i \in 1..Len(meetings) : meetings[i].call_id = main.arg[1]
    /\ joined_meetings # CallIds

\* task i makes its emit call in this step, and the call fails
EmitFails(i) ==
    tasks[i].pc = "marked" /\ tasks'[i].pc = "done" /\ emit_count' = emit_count

\* this step is a schedule_join_trigger call
ScheduleStep ==
    main.pc = "schedule" /\ main'.pc = "finish"

\* the outcome of a schedule_join_trigger call that finds the slot empty
ArmsAsFromEmptySlot ==
    LET trigger == calculate_next_trigger(meetings, joined_meetings, settings, now)
    IN  IF trigger = None
        THEN tasks' = tasks /\ join_trigger_handle' = 0
        ELSE /\ tasks' = Append(tasks, NewTask(trigger[1], settings, now))
             /\ join_trigger_handle' = Len(tasks) + 1

\* C22: the navigate-and-join instruction carries the meeting URL and the
\* settings read by the schedule_join_trigger call that armed the action,
\* whatever save_settings did since: a call arms with the settings current at
\* that call (for the trigger it computes and for the snapshot it hands to the
\* action), the action keeps URL and snapshot until it fires, and a delivered
\* instruction carries exactly these.
C22_EmitCarriesArmTimeSettings ==
    [][ /\ \A k \in (Len(tasks) + 1)..Len(tasks') :
             /\ tasks'[k].settings = Some(settings)
             /\ \E i \in 1..Len(meetings) :
                   /\ tasks'[k].call_id = meetings[i].call_id
                   /\ tasks'[k].url = meetings[i].url
                   /\ calculate_next_trigger(meetings, joined_meetings, settings, now)
                        = Some([meeting |-> meetings[i], delay_ms |-> tasks'[k].wake_at - now])
        /\ \A i \in 1..Len(tasks) :
             /\ (Live(tasks[i]) /\ Live(tasks'[i])) =>
                   /\ tasks'[i].url = tasks[i].url
                   /\ tasks'[i].settings = tasks[i].settings
                   /\ tasks'[i].call_id = tasks[i].call_id
             /\ (tasks[i].pc = "marked" /\ tasks'[i].pc = "done" /\ emit_count' # emit_count) =>
                   /\ last_emit' = Some([url |-> tasks[i].url, settings |-> tasks[i].settings[1]])
                   /\ emit_count' = [emit_count EXCEPT ![tasks[i].call_id] = @ + 1] ]_vars

\* an action is about to emit and save_settings has replaced the settings
\* since it was armed
C22_Witness ==
    \E i \in 1..Len(tasks) :
        /\ tasks[i].pc = "marked"
        /\ tasks[i].settings # Some(settings)
        /\ tasks[i].call_id \in joined_meetings

\* C23: when the emit fails the handler still completes: the task ends as it
\* does after a successful emit, its meeting stays joined, the store, the slot
\* and the other tasks are untouched; a later schedule_join_trigger call that
\* finds this completed task in the slot behaves as from an empty slot.
C23_FailedEmitCompletes ==
    [][ /\ \A i \in 1..Len(tasks) : EmitFails(i) =>
             /\ tasks[i].call_id \in joined_meetings'
             /\ tasks' = [tasks EXCEPT ![i] = Ended(tasks[i], "done")]
             /\ daemon_vars' = daemon_vars
             /\ join_trigger_handle' = join_trigger_handle
             /\ last_emit' = last_emit
             /\ main' = main
        /\ ( /\ ScheduleStep
              /\ main'.arg = <<"completed">>
              /\ \A c \in CallIds : emit_count[c] = 0 )
           => ArmsAsFromEmptySlot ]_vars

\* the emit of the only action that fired has failed, and the next
\* schedule_join_trigger call has found it in the slot and armed a new action
C23_Witness ==
    /\ main.pc = "finish"
    /\ main.arg = <<"completed">>
    /\ \A c \in CallIds : emit_count[c] = 0
    /\ joined_meetings # {}
    /\ join_trigger_handle = Len(tasks)
    /\ tasks[join_trigger_handle].pc = "pending"

\* C24: a failed emission is not retried: the step in which the emit fails
\* arms nothing and leaves the slot alone, an action is armed only by the
\* schedule_join_trigger call of a command, and never for a meeting that is
\* in the joined set, so never again for the meeting whose emit failed.
C24_FailedEmitNotRetried ==
    [][ /\ \A i \in 1..Len(tasks) : EmitFails(i) =>
             /\ Len(tasks') = Len(tasks)
             /\ join_trigger_handle' = join_trigger_handle
             /\ \A k \in 1..Len(tasks') : ~(tasks'[k].pc = "pending" /\ tasks[k].pc # "pending")
        /\ \A k \in (Len(tasks) + 1)..Len(tasks') :
             /\ ScheduleStep
             /\ main.op \in {"meetings_updated", "meeting_joined", "meeting_closed"}
             /\ tasks'[k].call_id \notin joined_meetings ]_vars

\* the emit for the only joined meeting has failed, the meeting is still in
\* the list, no command is in progress and nothing is armed
C24_Witness ==
    /\ main.pc = "idle"
    /\ \A c \in CallIds : emit_count[c] = 0
    /\ Cardinality(joined_meetings) = 1
    /\ \E i \in 1..Len(meetings) : meetings[i].call_id \in joined_meetings
    /\ join_trigger_handle # 0
    /\ tasks[join_trigger_handle].pc = "done"
    /\ \A k \in 1..Len(tasks) : ~Live(tasks[k])

\* C25: a schedule_join_trigger call that finds in the slot the handle of an
\* action that has fired and completed cancels nothing: the store, the
\* emissions and every existing task are as before, and the call computes and
\* arms the next trigger as it does from an empty slot.
C25_CancelCompletedIsNoOp ==
    [][(ScheduleStep /\ join_trigger_handle # 0 /\ tasks[join_trigger_handle].pc = "done") =>
          /\ daemon_vars' = daemon_vars
          /\ emit_vars' = emit_vars
          /\ \A k \in 1..Len(tasks) : tasks'[k] = tasks[k]
          /\ ArmsAsFromEmptySlot ]_vars

\* a call has found a completed action, whose instruction was delivered, in
\* the slot and has armed the next one
C25_Witness ==
    /\ main.pc = "finish"
    /\ main.arg = <<"completed">>
    /\ \E c \in CallIds : emit_count[c] = 1
    /\ join_trigger_handle = Len(tasks)
    /\ tasks[join_trigger_handle].pc = "pending"
    /\ tasks[1].pc = "done"

\* C26: under fair scheduling an action armed for meeting c is either
\* cancelled or fires: it runs to completion, which it reaches only through
\* its mark_joined and its emit call for c's URL, and c is then in the
\* joined set.
C26_ArmedActionFires ==
    \A i \in 1..MaxTasks, c \in CallIds :
        (i <= Len(tasks) /\ tasks[i].pc = "pending" /\ tasks[i].call_id = c)
            ~> ( /\ i <= Len(tasks)
                 /\ \/ tasks[i].pc = "cancelled"
                    \/ tasks[i].pc = "done" /\ c \in joined_meetings )

\* the first action armed has fired without being cancelled, after time has
\* passed: its meeting is joined and the instruction with the meeting's URL
\* was delivered
C26_Witness ==
    /\ Len(tasks) = 1
    /\ tasks[1].pc = "done"
    /\ now > 0
    /\ \E c \in joined_meetings :
         /\ emit_count[c] = 1
         /\ last_emit # None
         /\ last_emit[1].url = Url(c)

\* C29: while the daemon is stopped, from stop_daemon until the next
\* start_daemon, schedule_join_trigger arms no join action and no
\* navigate-and-join instruction is emitted.
C29_StoppedDaemonDoesNotJoin ==
    [][(~is_running(running) /\ ~is_running(running')) =>
          /\ Len(tasks') = Len(tasks)
          /\ emit_count' = emit_count ]_vars

\* the begin time of the meeting with this call_id
BeginTimeOf(call_id) ==
    (CHOOSE m \in MeetingPool(now) : m.call_id = call_id).begin_time

\* task i emits its instruction in this step
Emits(i) ==
    tasks[i].pc = "marked" /\ tasks'[i].pc = "done" /\ emit_count' # emit_count

\* C32: whenever navigate-and-join is emitted for a meeting with begin time
\* B, the current time N satisfies B - J <= N < B + X, J and X being the
\* join_before_minutes and max_minutes_after_start (in ms) of the settings
\* the action was armed with.
C32_EmitInsideJoinWindow ==
    [][\A i \in 1..Len(tasks) : Emits(i) =>
          LET B == BeginTimeOf(tasks[i].call_id)
              J == tasks[i].settings[1].join_before_minutes * MsPerMinute
              X == tasks[i].settings[1].max_minutes_after_start * MsPerMinute
          IN  B - J <= now /\ now < B + X ]_vars

\* C34: no join action is emitted for a meeting that is already in the
\* joined set at the moment its timer fires: a timer task passes its sleep,
\* from where it marks and emits without a further test, only for a meeting
\* that is not in the joined set, also when meeting_joined(id) has marked id
\* and has not yet made its schedule_join_trigger call.
C34_NoFireForJoined ==
    [][\A i \in 1..Len(tasks) :
          (tasks[i].pc = "pending" /\ tasks'[i].pc = "running")
          => tasks[i].call_id \notin joined_meetings ]_vars

\* C35: whenever navigate-and-join is emitted for a meeting, its call_id is
\* in the store's current meeting list: once meetings_updated has replaced
\* the list by one without the call_id, no instruction for it is emitted.
C35_EmitOnlyForListed ==
    [][\A i \in 1..Len(tasks) : Emits(i) =>
          \E k \in 1..Len(meetings) : meetings[k].call_id = tasks[i].call_id ]_vars

-----------------------------------------------------------------------------
(* The three DaemonState queries as pure functions: the store, the         *)
(* settings and the clock are drawn from bounded sets, with begin times on *)
(* and one millisecond around every boundary of the join window.           *)

QueryNow == 40 * MsPerMinute

QueryOffsets ==
    { -35 * MsPerMinute, -10 * MsPerMinute - 1, -10 * MsPerMinute, -10 * MsPerMinute + 1,
      -5 * MsPerMinute, -5 * MsPerMinute + 1, -3 * MsPerMinute, -1, 0, 1,
      MsPerMinute - 1, MsPerMinute, MsPerMinute + 1, 5 * MsPerMinute, 10 * MsPerMinute }

QueryPool ==
    { MkMeeting("a", TitleOpt, QueryNow + d, QueryNow) : d \in QueryOffsets }
      \cup { MkMeeting("b", TitleOps, QueryNow + d, QueryNow) : d \in QueryOffsets }

QueryLists ==
    {<<>>} \cup { <<m>> : m \in QueryPool }
           \cup { l \in QueryPool \X QueryPool : l[1].call_id # l[2].call_id }

QuerySettings ==
    { MkSettings(j, x, f) : j \in {0, 1, 5}, x \in {0, 3, 10}, f \in {<<>>, <<FilterOp>>} }

InitQuery ==
    /\ now = QueryNow
    /\ settings \in QuerySettings
    /\ running = FALSE
    /\ meetings \in QueryLists
    /\ joined_meetings \in SUBSET CallIds
    /\ suppressed_meetings = {}
    /\ join_trigger_handle = 0
    /\ tasks = <<>>
    /\ main = Idle
    /\ emit_count = [c \in CallIds |-> 0]
    /\ last_emit = None
    /\ query = None
    /\ InitSide

\* queries that mark the meeting they return as joined
RunQueries_marks_returned ==
    /\ query = None
    /\ query' = Some([trigger |-> calculate_next_trigger(meetings, joined_meetings, settings, now),
                      join_now |-> should_join_now(meetings, joined_meetings, settings),
                      next |-> get_next_meeting(meetings, joined_meetings, now)])
    /\ joined_meetings' = IF query'[1].next = None THEN joined_meetings
                           ELSE mark_joined(joined_meetings, query'[1].next[1].call_id)
    /\ UNCHANGED <<side_vars, now, settings, running, meetings, suppressed_meetings, timer_vars,
                   main, emit_vars>>

RunQueries ==
    /\ query = None
    /\ query' = Some([trigger |-> calculate_next_trigger(meetings, joined_meetings, settings, now),
                      join_now |-> should_join_now(meetings, joined_meetings, settings),
                      next |-> get_next_meeting(meetings, joined_meetings, now)])
    /\ UNCHANGED <<side_vars, now, settings, daemon_vars, timer_vars, main, emit_vars>>

\* DaemonState::mark_joined applied to the store; earlier results are stale
ApplyMarkJoined ==
    /\ \E c \in CallIds :
         /\ joined_meetings' = mark_joined(joined_meetings, c)
         /\ main' = [Idle EXCEPT !.op = "mark_joined", !.arg = <<c>>]
    /\ query' = None
    /\ UNCHANGED <<side_vars, now, settings, running, meetings, suppressed_meetings, timer_vars, emit_vars>>

\* DaemonState::clear_joined applied to the store; main.arg keeps the set
\* that was cleared
ApplyClearJoined ==
    /\ joined_meetings' = clear_joined(joined_meetings)
    /\ main' = [Idle EXCEPT !.op = "clear_joined", !.arg = <<joined_meetings>>]
    /\ query' = None
    /\ UNCHANGED <<side_vars, now, settings, running, meetings, suppressed_meetings, timer_vars, emit_vars>>

NextQuery ==
    \/ RunQueries
    \/ ApplyMarkJoined
    \/ ApplyClearJoined

SpecQuery == InitQuery /\ [][NextQuery]_vars

-----------------------------------------------------------------------------
(* The DaemonState object on its own: a new store and every sequence of    *)
(* its methods, with the clock advancing in between.  main.op and main.arg *)
(* keep the last method applied and its argument.                          *)

InitStore ==
    /\ now = 0
    /\ settings \in SettingsPool
    /\ running = FALSE
    /\ meetings = <<>>
    /\ joined_meetings = {}
    /\ suppressed_meetings = {}
    /\ join_trigger_handle = 0
    /\ tasks = <<>>
    /\ main = Idle
    /\ emit_count = [c \in CallIds |-> 0]
    /\ last_emit = None
    /\ query = None
    /\ InitSide

ApplyStart ==
    /\ running' = start(running)
    /\ main' = [Idle EXCEPT !.op = "start"]
    /\ query' = None
    /\ UNCHANGED <<side_vars, now, settings, meetings, joined_meetings, suppressed_meetings,
                   timer_vars, emit_vars>>

ApplyStop ==
    /\ running' = stop(running)
    /\ main' = [Idle EXCEPT !.op = "stop"]
    /\ query' = None
    /\ UNCHANGED <<side_vars, now, settings, meetings, joined_meetings, suppressed_meetings,
                   timer_vars, emit_vars>>

ApplyUpdateMeetings ==
    /\ \E l \in MeetingLists(now) :
         /\ meetings' = update_meetings(meetings, l)
         /\ main' = [Idle EXCEPT !.op = "update_meetings", !.arg = <<l>>]
    /\ query' = None
    /\ UNCHANGED <<side_vars, now, settings, running, joined_meetings, suppressed_meetings,
                   timer_vars, emit_vars>>

NextStore ==
    \/ Tick
    \/ ApplyStart
    \/ ApplyStop
    \/ ApplyUpdateMeetings
    \/ ApplyMarkJoined
    \/ ApplyClearJoined
    \/ RunQueries

SpecStore == InitStore /\ [][NextStore]_vars

-----------------------------------------------------------------------------
(* New-window requests (lib.rs): a Url is its scheme, its host_str() and   *)
(* its path(), the path a sequence of characters.                          *)

MeetHost == "meet.google.com"

MkUrl(scheme, host, path) == [scheme |-> scheme, host |-> host, path |-> path]

\* u8::is_ascii_alphanumeric
AsciiAlphanumeric ==
    {"a", "b", "c", "d", "e", "f", "g", "h", "i", "j", "k", "l", "m",
     "n", "o", "p", "q", "r", "s", "t", "u", "v", "w", "x", "y", "z",
     "A", "B", "C", "D", "E", "F", "G", "H", "I", "J", "K", "L", "M",
     "N", "O", "P", "Q", "R", "S", "T", "U", "V", "W", "X", "Y", "Z",
     "0", "1", "2", "3", "4", "5", "6", "7", "8", "9"}

\* str::trim_end_matches(ch): every trailing ch is removed
RECURSIVE TrimEndMatches(_, _)
TrimEndMatches(str, ch) ==
    IF str # <<>> /\ str[Len(str)] = ch
    THEN TrimEndMatches(SubSeq(str, 1, Len(str) - 1), ch)
    ELSE str

\* str::trim_start_matches(ch): every leading ch is removed
RECURSIVE TrimStartMatches(_, _)
TrimStartMatches(str, ch) ==
    IF str # <<>> /\ str[1] = ch
    THEN TrimStartMatches(Tail(str), ch)
    ELSE str

\* str::starts_with
StartsWith(str, prefix) ==
    Len(str) >= Len(prefix) /\ SubSeq(str, 1, Len(prefix)) = prefix

LookupPrefix == <<"/", "l", "o", "o", "k", "u", "p", "/">>

is_meeting_path(path) ==
    LET trimmed == TrimEndMatches(path, "/")
        code == TrimStartMatches(trimmed, "/")
    IN  IF StartsWith(trimmed, LookupPrefix) THEN TRUE
        ELSE IF Len(code) # 12 THEN FALSE
        ELSE \A idx \in 0..(Len(code) - 1) :
                IF idx \in {3, 8} THEN code[idx + 1] = "-"
                ELSE code[idx + 1] \in AsciiAlphanumeric

\* a meeting test that does not look at the host
is_meeting_url_any_host(url) == is_meeting_path(url.path)

is_meeting_url(url) ==
    IF url.host # Some(MeetHost) THEN FALSE
    ELSE is_meeting_path(url.path)

should_open_external(current_url, target_url) ==
    IF is_meeting_url(current_url) THEN target_url.host # Some(MeetHost)
    ELSE FALSE

\* the paths of the unit tests, and paths around each test is_meeting_path makes
MeetingCode == <<"a", "b", "c", "-", "d", "e", "f", "g", "-", "h", "i", "j">>
PathPool ==
    { <<>>,
      <<"/">>,
      <<"/">> \o MeetingCode,
      <<"/">> \o MeetingCode \o <<"/">>,
      <<"/">> \o MeetingCode \o <<"/", "/">>,
      <<"/", "/">> \o MeetingCode,
      <<"/">> \o MeetingCode \o <<"/", "e", "x", "t", "r", "a">>,
      <<"/">> \o Tail(MeetingCode),
      <<"/">> \o MeetingCode \o <<"k">>,
      <<"/", "a", "b", "c", "d", "e", "f", "g", "h", "i", "j", "k", "l">>,
      <<"/", "a", "b", "-", "c", "d", "e", "f", "g", "-", "h", "i">>,
      <<"/", "A", "b", "1", "-", "2", "E", "f", "9", "-", "h", "0", "Z">>,
      <<"/", "a", "b", "c", "-", "d", "e", ".", "g", "-", "h", "i", "j">>,
      <<"/", "a", "b", "c", "-", "d", "e", "f", "g", "-", "h", "i", "-">>,
      LookupPrefix \o MeetingCode,
      LookupPrefix \o <<"x">>,
      LookupPrefix \o <<"x", "/", "y", "/">>,
      LookupPrefix,
      LookupPrefix \o <<"/">>,
      <<"/", "l", "o", "o", "k", "u", "p">>,
      <<"/">> \o LookupPrefix \o <<"x">>,
      <<"/", "l", "a", "n", "d", "i", "n", "g">> }

\* http(s) pages on Meet and elsewhere, and a link without a host
UrlPool ==
    { MkUrl("https", Some(h), path) : h \in {MeetHost, "example.com"}, path \in PathPool }
        \cup { MkUrl("mailto", None, <<"s", "u", "p", "p", "o", "r", "t">>) }

InitUrl ==
    /\ now = 0
    /\ settings = InitialSettings
    /\ running = TRUE
    /\ meetings = <<>>
    /\ joined_meetings = {}
    /\ suppressed_meetings = {}
    /\ join_trigger_handle = 0
    /\ tasks = <<>>
    /\ main = Idle
    /\ emit_count = [c \in CallIds |-> 0]
    /\ last_emit = None
    /\ query = None
    /\ InitSide

\* the on_new_window callback: the main window's URL (the Meet home page
\* when it has none) against the requested one; query keeps the request,
\* what should_open_external returned and what the callback did
on_new_window ==
    /\ \E current_url \in UrlPool, url \in UrlPool :
         LET external == should_open_external(current_url, url)
         IN  query' = Some([current_url |-> current_url,
                            url |-> url,
                            external |-> external,
                            response |-> IF external THEN "open_url"
                                         ELSE IF url.scheme \in {"http", "https"} THEN "navigate"
                                         ELSE "open_url"])
    /\ UNCHANGED <<side_vars, now, settings, daemon_vars, timer_vars, main, emit_vars>>

NextUrl == on_new_window

SpecUrl == InitUrl /\ [][NextUrl]_vars

-----------------------------------------------------------------------------
(* Tray titles (tray.rs): a title is its sequence of chars; a char is one  *)
(* byte (ASCII) or three (CJK) in the UTF-8 string.                        *)

MaxTitleChars == 5
MaxLenArg == 6

\* 'A' and the CJK character U+4F1A of the unit test
Hui == "U+4F1A"
TitleChars == {"A", Hui}

Utf8Len(ch) == IF ch = "A" THEN 1 ELSE 3

RECURSIVE ByteLen(_)
ByteLen(chars) ==
    IF chars = <<>> THEN 0 ELSE Utf8Len(Head(chars)) + ByteLen(Tail(chars))

\* Iterator::take(n).collect()
Take(chars, n) == SubSeq(chars, 1, IF n < Len(chars) THEN n ELSE Len(chars))

Ellipsis == <<".", ".", ".">>

\* a truncation that measures the title in bytes (str::len)
truncate_title_bytes(title, max_len) ==
    IF max_len = 0 THEN <<>>
    ELSE IF ByteLen(title) <= max_len THEN title
    ELSE IF max_len <= 3 THEN Take(title, max_len)
    ELSE Take(title, max_len - 3) \o Ellipsis

truncate_title(title, max_len) ==
    IF max_len = 0 THEN <<>>
    ELSE IF Len(title) <= max_len THEN title
    ELSE IF max_len <= 3 THEN Take(title, max_len)
    ELSE Take(title, max_len - 3) \o Ellipsis

TitlePool == UNION { [1..k -> TitleChars] : k \in 0..MaxTitleChars }

\* one call of truncate_title, as update_tray_status and build_tray_title
\* make it; query keeps the arguments and the returned string
ApplyTruncateTitle ==
    /\ \E title \in TitlePool, max_len \in 0..MaxLenArg :
         query' = Some([title |-> title, max_len |-> max_len,
                        result |-> truncate_title(title, max_len)])
    /\ UNCHANGED <<side_vars, now, settings, daemon_vars, timer_vars, main, emit_vars>>

NextTitle == ApplyTruncateTitle

SpecTitle == InitUrl /\ [][NextTitle]_vars

-----------------------------------------------------------------------------
(* The mutexes of AppState (lib.rs).  Each piece of code is the sequence   *)
(* of lock() calls and guard drops it makes, one sequence per path through *)
(* its branches; a guard that is a temporary of one statement is locked    *)
(* and dropped in that statement.                                          *)

Lock(m) == <<"lock", m>>
Drop(m) == <<"unlock", m>>

\* state.<m>.lock().unwrap() as a temporary of one statement
Temp(m) == <<Lock(m), Drop(m)>>

\* log_app_event: state.logger.lock() around log_internal
log_app_event_locks == Temp("logger")

\* tray::update_tray_status: state.settings.lock() to read the tray settings
update_tray_status_locks == Temp("settings")

\* schedule_join_trigger: the settings clone, then the daemon guard for the
\* whole function; the handle guard of the cancel block, with the
\* trigger.cancelled log inside when a handle was found; then the
\* trigger.scheduled log and the handle guard to store the new handle, or
\* the trigger.none log
schedule_join_trigger_locks ==
    LET cancel == { <<Lock("join_trigger_handle"), Drop("join_trigger_handle")>>,
                    <<Lock("join_trigger_handle")>> \o log_app_event_locks
                        \o <<Drop("join_trigger_handle")>> }
        arm == { log_app_event_locks
                     \o <<Lock("join_trigger_handle"), Drop("join_trigger_handle")>>,
                 log_app_event_locks }
    IN  { Temp("settings") \o <<Lock("daemon")>> \o c \o a \o <<Drop("daemon")>> :
              c \in cancel, a \in arm }

get_status_locks ==
    { <<Lock("daemon"), Lock("settings"), Drop("settings"), Drop("daemon")>> }

get_joined_meetings_locks == { Temp("daemon") }

get_settings_locks == { Temp("settings") }

\* save_settings: it returns early when the save or the emit fails
save_settings_locks ==
    { Temp("settings") \o Temp("settings"),
      Temp("settings") \o Temp("settings") \o Temp("logger")
          \o Temp("settings") \o Temp("daemon") \o update_tray_status_locks }

\* start_daemon and stop_daemon: the logger guard is taken under the daemon guard
start_daemon_locks ==
    { <<Lock("daemon"), Lock("logger"), Drop("logger"), Drop("daemon")>> }

stop_daemon_locks ==
    { <<Lock("daemon"), Lock("logger"), Drop("logger"), Drop("daemon")>> }

log_event_locks == { Temp("logger") }

meetings_updated_locks ==
    { Temp("daemon") \o log_app_event_locks \o p
          \o Temp("settings") \o Temp("daemon") \o update_tray_status_locks :
      p \in schedule_join_trigger_locks }

meeting_joined_locks ==
    { Temp("daemon") \o log_app_event_locks \o p : p \in schedule_join_trigger_locks }

meeting_closed_locks ==
    { Temp("settings") \o Temp("daemon") \o log_app_event_locks \o p
          \o Temp("daemon") \o update_tray_status_locks :
      p \in schedule_join_trigger_locks }

get_suppressed_meetings_locks == { Temp("daemon") }

\* a timer task that writes its log entry first and marks under the logger guard
timer_fire_locks_logger_first ==
    { <<Lock("logger"), Lock("daemon"), Drop("daemon"), Drop("logger")>> }

\* the spawned timer task after its sleep: the trigger.fired log, then
\* mark_joined and the meeting.marked_joined log under the daemon guard
timer_fire_locks ==
    { log_app_event_locks
          \o <<Lock("daemon")>> \o log_app_event_locks \o <<Drop("daemon")>> }

\* one iteration of the check loop: the interval read, then the log of the emit
check_loop_locks == { Temp("settings") \o log_app_event_locks }

\* the code a thread can run
OpsOf(t) ==
    IF t[1] = "main"
    THEN {"get_status", "get_joined_meetings", "get_settings", "save_settings",
          "start_daemon", "stop_daemon", "log_event", "meetings_updated",
          "meeting_joined", "meeting_closed", "get_suppressed_meetings"}
    ELSE IF t[1] = "check" THEN {"check_loop"}
    ELSE {"timer_fire"}

LockPaths(op) ==
    CASE op = "get_status" -> get_status_locks
      [] op = "get_joined_meetings" -> get_joined_meetings_locks
      [] op = "get_settings" -> get_settings_locks
      [] op = "save_settings" -> save_settings_locks
      [] op = "start_daemon" -> start_daemon_locks
      [] op = "stop_daemon" -> stop_daemon_locks
      [] op = "log_event" -> log_event_locks
      [] op = "meetings_updated" -> meetings_updated_locks
      [] op = "meeting_joined" -> meeting_joined_locks
      [] op = "meeting_closed" -> meeting_closed_locks
      [] op = "get_suppressed_meetings" -> get_suppressed_meetings_locks
      [] op = "check_loop" -> check_loop_locks
      [] op = "timer_fire" -> timer_fire_locks

AtStep(t, kind) ==
    /\ threads[t].op # "none"
    /\ threads[t].pc <= Len(threads[t].path)
    /\ threads[t].path[threads[t].pc][1] = kind

NextMutex(t) == threads[t].path[threads[t].pc][2]

\* the thread enters a command, a timer handler or a loop iteration
BeginOp(t) ==
    /\ threads[t].op = "none"
    /\ \E op \in OpsOf(t) : \E path \in LockPaths(op) :
         threads' = [threads EXCEPT ![t] = [op |-> op, path |-> path, pc |-> 1, held |-> <<>>]]
    /\ UNCHANGED <<now, settings, daemon_vars, timer_vars, main, emit_vars, query,
                   mutex, log_vars, check_loop>>

\* Mutex::lock returns once no thread holds the mutex
Acquire(t) ==
    /\ AtStep(t, "lock")
    /\ mutex[NextMutex(t)] = None
    /\ mutex' = [mutex EXCEPT ![NextMutex(t)] = t]
    /\ threads' = [threads EXCEPT ![t].pc = @ + 1,
                                  ![t].held = Append(@, NextMutex(t))]
    /\ UNCHANGED <<now, settings, daemon_vars, timer_vars, main, emit_vars, query,
                   log_vars, check_loop>>

\* the guard is dropped
Release(t) ==
    /\ AtStep(t, "unlock")
    /\ mutex' = [mutex EXCEPT ![NextMutex(t)] = None]
    /\ threads' = [threads EXCEPT ![t].pc = @ + 1,
                                  ![t].held = SelectSeq(@, LAMBDA m : m # NextMutex(t))]
    /\ UNCHANGED <<now, settings, daemon_vars, timer_vars, main, emit_vars, query,
                   log_vars, check_loop>>

EndOp(t) ==
    /\ threads[t].op # "none"
    /\ threads[t].pc > Len(threads[t].path)
    /\ threads' = [threads EXCEPT ![t] = IdleThread]
    /\ UNCHANGED <<now, settings, daemon_vars, timer_vars, main, emit_vars, query,
                   mutex, log_vars, check_loop>>

NextLocks ==
    \/ \E t \in ThreadIds : BeginOp(t)
    \/ \E t \in ThreadIds : Acquire(t)
    \/ \E t \in ThreadIds : Release(t)
    \/ \E t \in ThreadIds : EndOp(t)

SpecLocks == Init /\ [][NextLocks]_vars

-----------------------------------------------------------------------------
(* The log manager (logging.rs).  A log entry is its ts_ms, level, scope,  *)
(* module, event and context; message and session_id are copied into the  *)
(* line and decide nothing.  A serde_json::Value is a record of its kind   *)
(* and its value; strings are sequences of characters.                     *)

Num(n) == [kind |-> "number", value |-> n]
Str(s) == [kind |-> "string", value |-> s]
Obj(map) == [kind |-> "object", value |-> map]
Arr(items) == [kind |-> "array", value |-> items]

CLEANUP_INTERVAL_MS == 21600000
RateLimitMs == 30000

MaxLogCalls == 3

level_value(level) ==
    CASE level = "Error" -> 0
      [] level = "Warn" -> 1
      [] level = "Info" -> 2
      [] level = "Debug" -> 3
      [] level = "Trace" -> 4

level_allowed(level, threshold) == level_value(level) <= level_value(threshold)

rate_limit_window_ms(level, module, event) ==
    IF level \notin {"Debug", "Trace"} THEN None
    ELSE IF <<module, event>> \in
              { <<"daemon", "check.emitted">>, <<"meetings", "meetings.updated">>,
                <<"join", "trigger.none">>, <<"homepage", "parse.result">>,
                <<"homepage", "meetings.reported">>, <<"overlay", "overlay.update">> }
    THEN Some(RateLimitMs)
    ELSE None

\* u64::saturating_sub
SaturatingSub(a, b) == IF a >= b THEN a - b ELSE 0

\* format!("{}:{}:{}", entry.scope, entry.module, entry.event)
RateLimitKey(entry) == <<entry.scope, ":", entry.module, ":", entry.event>>

\* Map::insert
MapInsert(map, key, value) ==
    [k \in (DOMAIN map) \cup {key} |-> IF k = key THEN value ELSE map[k]]

add_suppressed(context, suppressed) ==
    IF context # None /\ context[1].kind = "object"
    THEN Some(Obj(MapInsert(context[1].value, "suppressed", Num(suppressed))))
    ELSE IF context # None
    THEN Some(Obj(MapInsert(MapInsert(<<>>, "context", context[1]),
                            "suppressed", Num(suppressed))))
    ELSE Some(Obj(MapInsert(<<>>, "suppressed", Num(suppressed))))

is_sensitive_key(key) == key \in {"title", "callId", "url", "eventId"}

\* in the masks, "U+2026" stands for the character U+2026

\* str::trim, for the blank as the only white space
Trim(raw) == TrimStartMatches(TrimEndMatches(raw, " "), " ")

tail_chars(raw, count) ==
    IF Len(raw) <= count THEN raw ELSE SubSeq(raw, Len(raw) - count + 1, Len(raw))

mask_id(raw) ==
    LET trimmed == Trim(raw)
        len == Len(trimmed)
    IN  IF len <= 4 THEN <<"*", "*", "*", "*">>
        ELSE <<"*", "*", "*", "*">> \o SubSeq(trimmed, len - 3, len)

\* the position of the first occurrence of pat in str, 0 when there is none
IndexOf(str, pat) ==
    LET hits == { i \in 1..(Len(str) - Len(pat) + 1) :
                    SubSeq(str, i, i + Len(pat) - 1) = pat }
    IN  IF hits = {} THEN 0 ELSE CHOOSE i \in hits : \A j \in hits : i <= j

\* path.split('/').filter(|s| !s.is_empty()).last().unwrap_or(path)
LastSegment(path) ==
    LET t == TrimEndMatches(path, "/")
        slashes == { i \in 1..Len(t) : t[i] = "/" }
        from == IF slashes = {} THEN 0
                ELSE CHOOSE i \in slashes : \A j \in slashes : j <= i
    IN  IF t = <<>> THEN path ELSE SubSeq(t, from + 1, Len(t))

mask_url(raw) ==
    LET trimmed == Trim(raw)
        i == IndexOf(trimmed, <<":", "/", "/">>)
        scheme == IF i = 0 THEN <<>> ELSE SubSeq(trimmed, 1, i + 2)
        rest == IF i = 0 THEN trimmed ELSE SubSeq(trimmed, i + 3, Len(trimmed))
        j == IndexOf(rest, <<"/">>)
        host == IF j = 0 THEN rest ELSE SubSeq(rest, 1, j - 1)
        path == IF j = 0 THEN <<>> ELSE SubSeq(rest, j + 1, Len(rest))
    IN  IF path = <<>> THEN scheme \o host
        ELSE scheme \o host \o <<"U+2026", "/", "U+2026">>
               \o tail_chars(LastSegment(path), 6)

mask_value(key, value) ==
    IF value.kind # "string" THEN Str(<<"[redacted]">>)
    ELSE CASE key = "title" ->
                Str(<<"[redacted:", ToString(Len(value.value)), "U+2026">>
                      \o tail_chars(value.value, 6) \o <<"]">>)
           [] key = "url" -> Str(mask_url(value.value))
           [] key \in {"callId", "eventId"} -> Str(mask_id(value.value))
           [] OTHER -> Str(<<"[redacted]">>)

RECURSIVE sanitize_value_in_place(_)
sanitize_value_in_place(value) ==
    CASE value.kind = "object" ->
           Obj([k \in DOMAIN value.value |->
                  IF is_sensitive_key(k) THEN mask_value(k, value.value[k])
                  ELSE sanitize_value_in_place(value.value[k])])
      [] value.kind = "array" ->
           Arr([i \in DOMAIN value.value |-> sanitize_value_in_place(value.value[i])])
      [] OTHER -> value

sanitize_entry(entry) ==
    IF entry.context # None
    THEN [entry EXCEPT !.context = Some(sanitize_value_in_place(entry.context[1]))]
    ELSE entry

\* cleanup_old_logs: at most once per CLEANUP_INTERVAL_MS; the files it
\* removes are older than any entry of this model
cleanup_old_logs(lg, clock) ==
    IF SaturatingSub(clock, lg.last_cleanup_ms) < CLEANUP_INTERVAL_MS THEN lg
    ELSE [lg EXCEPT !.last_cleanup_ms = clock]

\* write_entry_no_limit: the line is appended to the file unless creating
\* the directory, opening the file or writing fails (io_ok = FALSE)
write_entry_no_limit(lg, entry, io_ok, clock) ==
    [logger |-> cleanup_old_logs(lg, clock),
     outcome |-> IF io_ok THEN "written" ELSE "io_error",
     line |-> IF io_ok THEN Some(sanitize_entry(entry)) ELSE None]

\* a write_entry that adds the suppressed field to every entry that passes
\* the rate limiter
write_entry_always_counts(lg, entry, io_ok, clock) ==
    IF ~lg.enabled THEN [logger |-> lg, outcome |-> "disabled", line |-> None]
    ELSE IF ~level_allowed(entry.level, lg.level)
    THEN [logger |-> lg, outcome |-> "filtered", line |-> None]
    ELSE IF rate_limit_window_ms(entry.level, entry.module, entry.event) # None
    THEN LET rate_limit_ms ==
                 rate_limit_window_ms(entry.level, entry.module, entry.event)[1]
             key == RateLimitKey(entry)
             state == IF key \in DOMAIN lg.rate_limits THEN lg.rate_limits[key]
                      ELSE [last_ts_ms |-> 0, suppressed |-> 0]
         IN  IF state.last_ts_ms > 0
                /\ SaturatingSub(entry.ts_ms, state.last_ts_ms) < rate_limit_ms
             THEN [logger |-> [lg EXCEPT !.rate_limits =
                                 MapInsert(@, key,
                                   [state EXCEPT !.suppressed = @ + 1])],
                   outcome |-> "rate_limited", line |-> None]
             ELSE write_entry_no_limit(
                    [lg EXCEPT !.rate_limits =
                       MapInsert(@, key, [last_ts_ms |-> entry.ts_ms, suppressed |-> 0])],
                    [entry EXCEPT !.context = add_suppressed(@, state.suppressed)],
                    io_ok, clock)
    ELSE write_entry_no_limit(lg, entry, io_ok, clock)

\* write_entry: the manager after the call, what the call did with the
\* entry, and the line appended to the log file
write_entry(lg, entry, io_ok, clock) ==
    IF ~lg.enabled THEN [logger |-> lg, outcome |-> "disabled", line |-> None]
    ELSE IF ~level_allowed(entry.level, lg.level)
    THEN [logger |-> lg, outcome |-> "filtered", line |-> None]
    ELSE IF rate_limit_window_ms(entry.level, entry.module, entry.event) # None
    THEN LET rate_limit_ms ==
                 rate_limit_window_ms(entry.level, entry.module, entry.event)[1]
             key == RateLimitKey(entry)
             state == IF key \in DOMAIN lg.rate_limits THEN lg.rate_limits[key]
                      ELSE [last_ts_ms |-> 0, suppressed |-> 0]
         IN  IF state.last_ts_ms > 0
                /\ SaturatingSub(entry.ts_ms, state.last_ts_ms) < rate_limit_ms
             THEN [logger |-> [lg EXCEPT !.rate_limits =
                                 MapInsert(@, key,
                                   [state EXCEPT !.suppressed = @ + 1])],
                   outcome |-> "rate_limited", line |-> None]
             ELSE write_entry_no_limit(
                    [lg EXCEPT !.rate_limits =
                       MapInsert(@, key, [last_ts_ms |-> entry.ts_ms, suppressed |-> 0])],
                    IF state.suppressed > 0
                    THEN [entry EXCEPT !.context = add_suppressed(@, state.suppressed)]
                    ELSE entry,
                    io_ok, clock)
    ELSE write_entry_no_limit(lg, entry, io_ok, clock)

MkEntry(ts, level, scope, module, event, context) ==
    [ts_ms |-> ts, level |-> level, scope |-> scope, module |-> module,
     event |-> event, context |-> context]

\* the time of the log specification: the clock stands while entries are logged
LogNow == 1000

\* log_internal calls as lib.rs makes them: the check loop's check.emitted,
\* schedule_join_trigger's trigger.none, the timer task's meeting.marked_joined
InternalPool ==
    { <<"Debug", "daemon", "check.emitted",
        Some(Obj(MapInsert(<<>>, "checkId", Num(1))))>>,
      <<"Debug", "join", "trigger.none", None>>,
      <<"Debug", "join", "meeting.marked_joined",
        Some(Obj(MapInsert(<<>>, "callId", Str(<<"a", "b", "c", "-", "d", "e">>))))>> }

\* LogEventInput values the WebView sends: the homepage's parse.result at
\* Info and at Trace, with the timestamp left out or on either side of the
\* rate-limit window that an entry of time LogNow opens
InputPool ==
    { [level |-> l, module |-> "homepage", event |-> "parse.result",
       context |-> Some(Str(<<"o", "k">>)), ts_ms |-> ts, scope |-> None] :
        l \in {"Info", "Trace"},
        ts \in {None, Some(0), Some(LogNow + RateLimitMs - 1), Some(LogNow + RateLimitMs)} }

LogStep(entry, io_ok) ==
    LET r == write_entry(logger, entry, io_ok, now)
    IN  /\ logger' = r.logger
        /\ log_calls' = Append(log_calls,
                               [entry |-> entry, outcome |-> r.outcome, line |-> r.line])

\* LogManager::log_internal, called by log_app_event
log_internal ==
    /\ Len(log_calls) < MaxLogCalls
    /\ \E c \in InternalPool, io_ok \in BOOLEAN :
         LogStep(MkEntry(now, c[1], "rust", c[2], c[3], c[4]), io_ok)
    /\ UNCHANGED <<lock_vars, check_loop, now, settings, daemon_vars, timer_vars,
                   main, emit_vars, query>>

\* LogManager::log_from_input, called by the log_event command with the
\* default scope "webview"
log_from_input ==
    /\ Len(log_calls) < MaxLogCalls
    /\ \E input \in InputPool, io_ok \in BOOLEAN :
         LogStep(MkEntry(IF input.ts_ms # None THEN input.ts_ms[1] ELSE now,
                         input.level,
                         IF input.scope # None /\ Trim(input.scope[1]) # <<>>
                         THEN input.scope[1] ELSE "webview",
                         input.module, input.event, input.context), io_ok)
    /\ UNCHANGED <<lock_vars, check_loop, now, settings, daemon_vars, timer_vars,
                   main, emit_vars, query>>

\* LogManager::configure with the tauri section of the saved settings
configure ==
    /\ \E enabled \in BOOLEAN, level \in {"Debug", "Trace"} :
         logger' = LET lg == [logger EXCEPT !.enabled = enabled, !.level = level]
                   IN  IF enabled THEN cleanup_old_logs(lg, now) ELSE lg
    /\ UNCHANGED <<lock_vars, check_loop, log_calls, now, settings, daemon_vars,
                   timer_vars, main, emit_vars, query>>

InitLog ==
    /\ now = LogNow
    /\ settings = InitialSettings
    /\ running = TRUE
    /\ meetings = <<>>
    /\ joined_meetings = {}
    /\ suppressed_meetings = {}
    /\ join_trigger_handle = 0
    /\ tasks = <<>>
    /\ main = Idle
    /\ emit_count = [c \in CallIds |-> 0]
    /\ last_emit = None
    /\ query = None
    /\ InitSide

NextLog ==
    \/ log_internal
    \/ log_from_input
    \/ configure

SpecLog == InitLog /\ [][NextLog]_vars

-----------------------------------------------------------------------------
(* The check loop (lib.rs, setup_daemon): the task spawned at setup, which *)
(* reads the interval, emits check-meetings, logs and sleeps, for ever.    *)
(* The clock of this specification advances by one second.                 *)

MaxCheckSeconds == 4

CheckIntervalPool == {0, 1, 2}

CheckSettingsPool ==
    { [InitialSettings EXCEPT !.check_interval_seconds = c] : c \in CheckIntervalPool }

\* u32::max
Max(a, b) == IF a >= b THEN a ELSE b

CheckTick ==
    /\ now < MaxCheckSeconds * 1000
    /\ now' = now + 1000
    /\ UNCHANGED <<side_vars, settings, daemon_vars, timer_vars, main, emit_vars, query>>

\* the save_settings command storing another check interval
save_check_interval ==
    /\ main.pc = "idle"
    /\ \E s \in CheckSettingsPool : settings' = s
    /\ UNCHANGED <<side_vars, now, daemon_vars, timer_vars, main, emit_vars, query>>

\* state.settings.lock().unwrap().check_interval_seconds.max(1); AppState is
\* managed before setup runs, so try_state finds it
CheckRead ==
    /\ check_loop.pc = "read"
    /\ check_loop' = [check_loop EXCEPT
                        !.pc = "emit",
                        !.interval_seconds = Max(settings.check_interval_seconds, 1)]
    /\ UNCHANGED <<lock_vars, log_vars, now, settings, daemon_vars, timer_vars, main,
                   emit_vars, query>>

CheckPayload(check_id) ==
    [check_id |-> check_id, interval_seconds |-> check_loop.interval_seconds,
     emitted_at_ms |-> now]

\* the log_app_event call of either branch of the emit
CheckLogEntry(payload, ok) ==
    IF ok
    THEN MkEntry(now, "Debug", "rust", "daemon", "check.emitted",
                 Some(Obj(MapInsert(MapInsert(MapInsert(<<>>,
                     "checkId", Num(payload.check_id)),
                     "intervalSeconds", Num(payload.interval_seconds)),
                     "emittedAtMs", Num(payload.emitted_at_ms)))))
    ELSE MkEntry(now, "Error", "rust", "daemon", "check.emit_failed",
                 Some(Obj(MapInsert(MapInsert(<<>>,
                     "checkId", Num(payload.check_id)),
                     "intervalSeconds", Num(payload.interval_seconds)))))

\* a loop that numbers only the emissions that were delivered
CheckEmit_counts_delivered ==
    /\ check_loop.pc = "emit"
    /\ \E ok \in BOOLEAN, io_ok \in BOOLEAN :
         LET check_id == IF ok THEN check_loop.check_id + 1 ELSE check_loop.check_id
             payload == CheckPayload(check_id)
         IN  /\ check_loop' = [check_loop EXCEPT
                                 !.pc = "sleep",
                                 !.check_id = check_id,
                                 !.emitted = Some([payload |-> payload, delivered |-> ok])]
             /\ logger' = write_entry(logger, CheckLogEntry(payload, ok), io_ok, now).logger
    /\ UNCHANGED <<lock_vars, log_calls, now, settings, daemon_vars, timer_vars, main,
                   emit_vars, query>>

\* check_id += 1, the payload, app_handle.emit("check-meetings", payload),
\* which succeeds or fails, and the log entry of that branch
CheckEmit ==
    /\ check_loop.pc = "emit"
    /\ \E ok \in BOOLEAN, io_ok \in BOOLEAN :
         LET check_id == check_loop.check_id + 1
             payload == CheckPayload(check_id)
         IN  /\ check_loop' = [check_loop EXCEPT
                                 !.pc = "sleep",
                                 !.check_id = check_id,
                                 !.emitted = Some([payload |-> payload, delivered |-> ok])]
             /\ logger' = write_entry(logger, CheckLogEntry(payload, ok), io_ok, now).logger
    /\ UNCHANGED <<lock_vars, log_calls, now, settings, daemon_vars, timer_vars, main,
                   emit_vars, query>>

\* tokio::time::sleep(Duration::from_secs(interval_seconds)) is called
CheckSleep ==
    /\ check_loop.pc = "sleep"
    /\ check_loop' = [check_loop EXCEPT
                        !.pc = "asleep",
                        !.wake_at = now + check_loop.interval_seconds * 1000]
    /\ UNCHANGED <<lock_vars, log_vars, now, settings, daemon_vars, timer_vars, main,
                   emit_vars, query>>

\* the sleep completes, at its deadline or later, and the loop starts over
CheckWake ==
    /\ check_loop.pc = "asleep"
    /\ now >= check_loop.wake_at
    /\ check_loop' = [check_loop EXCEPT !.pc = "read"]
    /\ UNCHANGED <<lock_vars, log_vars, now, settings, daemon_vars, timer_vars, main,
                   emit_vars, query>>

InitCheck ==
    /\ now = 0
    /\ settings \in CheckSettingsPool
    /\ running = TRUE
    /\ meetings = <<>>
    /\ joined_meetings = {}
    /\ suppressed_meetings = {}
    /\ join_trigger_handle = 0
    /\ tasks = <<>>
    /\ main = Idle
    /\ emit_count = [c \in CallIds |-> 0]
    /\ last_emit = None
    /\ query = None
    /\ InitSide

NextCheck ==
    \/ CheckTick
    \/ save_check_interval
    \/ start_daemon
    \/ stop_daemon
    \/ CheckRead
    \/ CheckEmit
    \/ CheckSleep
    \/ CheckWake

SpecCheck == InitCheck /\ [][NextCheck]_vars

-----------------------------------------------------------------------------
(* Claims about the pure queries, under SpecQuery *)

IsCandidate(m) ==
    calculate_next_trigger(<<m>>, {}, settings, now) # None

\* C5: none of calculate_next_trigger, should_join_now and get_next_meeting
\* returns a meeting whose call_id is in the joined set; when one meeting of
\* the list is joined and the other is pending, the trigger is the pending one.
C5_QueriesExcludeJoined ==
    query # None =>
        LET q == query[1]
        IN  /\ q.trigger # None => q.trigger[1].meeting.call_id \notin joined_meetings
            /\ q.join_now # None => q.join_now[1].call_id \notin joined_meetings
            /\ q.next # None => q.next[1].call_id \notin joined_meetings
            /\ \A i, k \in 1..Len(meetings) :
                 ( /\ meetings[i].call_id \in joined_meetings
                   /\ meetings[k].call_id \notin joined_meetings
                   /\ IsCandidate(meetings[k]) )
                 => /\ q.trigger # None
                    /\ q.trigger[1].meeting = meetings[k]

\* a joined meeting that starts first, a pending one after it, and the pending one returned
C5_Witness ==
    /\ query # None
    /\ Len(meetings) = 2
    /\ meetings[1].call_id \in joined_meetings
    /\ meetings[2].call_id \notin joined_meetings
    /\ meetings[1].begin_time < meetings[2].begin_time
    /\ ~TitleExcluded(meetings[1], settings)
    /\ query[1].trigger # None
    /\ query[1].trigger[1].meeting = meetings[2]
    /\ query[1].next = Some(meetings[2])

\* the candidate delay as the claim states it, from B, N, J and X in ms
C10_Delay(m) ==
    LET B == m.begin_time
        J == settings.join_before_minutes * MsPerMinute
        X == settings.max_minutes_after_start * MsPerMinute
    IN  IF B - J - now > 0 THEN Some(B - J - now)
        ELSE IF now - B < X THEN Some(0)
        ELSE None

\* C10: for a non-joined, non-excluded meeting the candidate delay is B-J-N
\* when that is positive, 0 when it is not and N-B < X, and the meeting is
\* dropped when N-B >= X; delay_ms is never negative; a meeting starting in 10
\* minutes with join_before_minutes = 1 yields a delay strictly between 8 and
\* 10 minutes, one started 5 minutes ago with max_minutes_after_start = 10
\* yields 0, one started 35 minutes ago yields no trigger.
C10_CandidateDelay ==
    query # None =>
        LET q == query[1]
            alone == /\ Len(meetings) = 1
                     /\ meetings[1].call_id \notin joined_meetings
                     /\ ~TitleExcluded(meetings[1], settings)
        IN  /\ q.trigger # None =>
                 /\ q.trigger[1].delay_ms >= 0
                 /\ C10_Delay(q.trigger[1].meeting) = Some(q.trigger[1].delay_ms)
            /\ alone =>
                 /\ C10_Delay(meetings[1]) = None => q.trigger = None
                 /\ C10_Delay(meetings[1]) # None =>
                      q.trigger = Some([meeting |-> meetings[1],
                                        delay_ms |-> C10_Delay(meetings[1])[1]])
                 /\ ( /\ meetings[1].begin_time - now = 10 * MsPerMinute
                      /\ settings.join_before_minutes = 1 )
                    => /\ q.trigger # None
                       /\ q.trigger[1].delay_ms > 8 * MsPerMinute
                       /\ q.trigger[1].delay_ms < 10 * MsPerMinute
                 /\ ( /\ now - meetings[1].begin_time = 5 * MsPerMinute
                      /\ settings.max_minutes_after_start = 10 )
                    => /\ q.trigger # None
                       /\ q.trigger[1].delay_ms = 0
                 /\ ( /\ now - meetings[1].begin_time = 35 * MsPerMinute
                      /\ settings.max_minutes_after_start = 10 )
                    => q.trigger = None

\* a meeting exactly max_minutes_after_start late, alone in the list, is dropped
C10_Witness ==
    /\ query # None
    /\ Len(meetings) = 1
    /\ meetings[1].call_id \notin joined_meetings
    /\ ~TitleExcluded(meetings[1], settings)
    /\ settings.max_minutes_after_start > 0
    /\ now - meetings[1].begin_time = settings.max_minutes_after_start * MsPerMinute
    /\ query[1].trigger = None

\* f occurs in title at some position, character for character
TitleMatches(title, f) ==
    \E i \in 1..(Len(title) - Len(f) + 1) :
        \A k \in 1..Len(f) : title[i + k - 1] = f[k]

\* some exclude filter of the settings occurs in the title of m
MatchesAFilter(m) ==
    \E k \in 1..Len(settings.title_exclude_filters) :
        TitleMatches(m.title, settings.title_exclude_filters[k])

\* the indices of the meetings that survive the joined, title and lateness filters
Survivors ==
    { i \in 1..Len(meetings) :
        /\ meetings[i].call_id \notin joined_meetings
        /\ ~MatchesAFilter(meetings[i])
        /\ C10_Delay(meetings[i]) # None }

\* C11: calculate_next_trigger returns None exactly when no meeting survives
\* the joined, title and lateness filters; otherwise it returns the survivor
\* with the smallest candidate delay, and among survivors with the same
\* smallest delay the one that is first in the list.
C11_SmallestDelayFirstWins ==
    query # None =>
        LET q == query[1]
            d(i) == C10_Delay(meetings[i])[1]
        IN  /\ q.trigger = None <=> Survivors = {}
            /\ q.trigger # None =>
                  \E i \in Survivors :
                      /\ q.trigger[1] = [meeting |-> meetings[i], delay_ms |-> d(i)]
                      /\ \A k \in Survivors : d(i) <= d(k) /\ (d(k) = d(i) => i <= k)

\* two survivors with delay 0, the one that starts later listed first and returned
C11_Witness ==
    /\ query # None
    /\ Survivors = {1, 2}
    /\ C10_Delay(meetings[1]) = Some(0)
    /\ C10_Delay(meetings[2]) = Some(0)
    /\ meetings[1].begin_time > meetings[2].begin_time
    /\ query[1].trigger = Some([meeting |-> meetings[1], delay_ms |-> 0])

\* m is in the join window of should_join_now, both ends included
InJoinWindow(m) ==
    /\ m.starts_in_minutes <= settings.join_before_minutes
    /\ m.starts_in_minutes >= -settings.max_minutes_after_start

\* C12: a meeting whose title contains an exclude filter as a case-sensitive
\* substring is never returned by should_join_now or calculate_next_trigger;
\* when the other meeting of the list matches no filter (a title that differs
\* from the filter only in case does not match) and is otherwise eligible, it
\* is returned instead, also when the excluded one is the earlier of the two.
C12_ExcludedTitlesSkipped ==
    query # None =>
        LET q == query[1]
        IN  /\ q.trigger # None => ~MatchesAFilter(q.trigger[1].meeting)
            /\ q.join_now # None => ~MatchesAFilter(q.join_now[1])
            /\ \A i, k \in 1..Len(meetings) :
                 ( /\ MatchesAFilter(meetings[i])
                   /\ meetings[k].title = TitleOps
                   /\ meetings[k].call_id \notin joined_meetings )
                 => /\ C10_Delay(meetings[k]) # None =>
                         /\ q.trigger # None
                         /\ q.trigger[1].meeting = meetings[k]
                    /\ InJoinWindow(meetings[k]) => q.join_now = Some(meetings[k])

\* the earlier meeting is excluded by its title, the later one is returned by both queries
C12_Witness ==
    /\ query # None
    /\ Len(meetings) = 2
    /\ joined_meetings = {}
    /\ settings.title_exclude_filters = <<FilterOp>>
    /\ meetings[1].title = TitleOpt
    /\ meetings[2].title = TitleOps
    /\ meetings[1].begin_time < meetings[2].begin_time
    /\ InJoinWindow(meetings[1])
    /\ C10_Delay(meetings[1]) # None
    /\ query[1].trigger # None
    /\ query[1].trigger[1].meeting = meetings[2]
    /\ query[1].join_now = Some(meetings[2])

\* the indices of the meetings that are eligible for should_join_now
Eligible ==
    { i \in 1..Len(meetings) :
        /\ meetings[i].call_id \notin joined_meetings
        /\ ~MatchesAFilter(meetings[i])
        /\ InJoinWindow(meetings[i]) }

\* C13: should_join_now returns Some(m) if and only if the list has a meeting
\* that is not joined, matches no exclude filter and has
\* -max_minutes_after_start <= starts_in_minutes <= join_before_minutes; the
\* meeting it returns is one of these.
C13_JoinNowIffEligible ==
    query # None =>
        LET q == query[1]
        IN  /\ q.join_now # None <=> Eligible # {}
            /\ q.join_now # None => \E i \in Eligible : q.join_now[1] = meetings[i]

\* both ends of the window: of a meeting exactly join_before_minutes ahead
\* that is joined and one exactly max_minutes_after_start late, the late one
\* is returned
C13_Witness ==
    /\ query # None
    /\ Len(meetings) = 2
    /\ settings.max_minutes_after_start > 0
    /\ settings.join_before_minutes > 0
    /\ meetings[1].starts_in_minutes = -settings.max_minutes_after_start
    /\ meetings[2].starts_in_minutes = settings.join_before_minutes
    /\ meetings[2].call_id \in joined_meetings
    /\ query[1].join_now = Some(meetings[1])

\* the list in reverse order
Reversed(ms) == [i \in 1..Len(ms) |-> ms[Len(ms) + 1 - i]]

\* the indices of the meetings the display query can return
Displayable ==
    { i \in 1..Len(meetings) :
        /\ meetings[i].call_id \notin joined_meetings
        /\ meetings[i].begin_time > now - 5 * MsPerMinute }

\* C14, as stated: get_next_meeting returns the non-joined meeting with the
\* earliest begin_time among those that begin later than now minus 5 minutes,
\* independent of list order (the list in reverse order gives the same
\* meeting), and None when every meeting is joined or started 5 minutes ago
\* or more.
C14_DisplayQueryAnyOrder ==
    query # None =>
        LET q == query[1]
            r == get_next_meeting(Reversed(meetings), joined_meetings, now)
        IN  /\ q.next = None <=> Displayable = {}
            /\ q.next # None =>
                  \E i \in Displayable :
                      /\ q.next[1] = meetings[i]
                      /\ \A k \in Displayable : meetings[i].begin_time <= meetings[k].begin_time
            /\ r = q.next

\* C14, amended: get_next_meeting returns a non-joined meeting with the
\* earliest begin_time among those that begin later than now minus 5 minutes,
\* wherever it is in the list, and the first listed of several that share
\* that begin_time (the list in reverse order gives the same begin_time, and
\* the same meeting when only one has it); it returns None when every meeting
\* is joined or started 5 minutes ago or more; title filters and the join
\* window of the settings play no part.
C14_DisplayQuery ==
    query # None =>
        LET q == query[1]
            r == get_next_meeting(Reversed(meetings), joined_meetings, now)
            earliest(i) == \A k \in Displayable : meetings[i].begin_time <= meetings[k].begin_time
        IN  /\ q.next = None <=> Displayable = {}
            /\ q.next # None =>
                  /\ \E i \in Displayable :
                        /\ q.next[1] = meetings[i]
                        /\ earliest(i)
                        /\ \A k \in Displayable : earliest(k) => i <= k
                  /\ r # None
                  /\ r[1].begin_time = q.next[1].begin_time
                  /\ Cardinality({ i \in Displayable : earliest(i) }) = 1 => r = q.next
            /\ q.next = None => r = None

\* two meetings that began at the same time some minutes ago, the first
\* listed excluded by its title and past the join window, and the display
\* query returns the first listed
C14_Witness ==
    /\ query # None
    /\ Len(meetings) = 2
    /\ joined_meetings = {}
    /\ meetings[2].begin_time = meetings[1].begin_time
    /\ MatchesAFilter(meetings[1])
    /\ now - meetings[1].begin_time >= settings.max_minutes_after_start * MsPerMinute
    /\ now - meetings[1].begin_time > 0
    /\ query[1].join_now = None
    /\ query[1].next = Some(meetings[1])

\* C20: clear_joined empties the joined set; with the same list, settings and
\* clock the three queries then return what they return on a store in which
\* no meeting was ever marked joined, and a meeting that was joined and is
\* otherwise a candidate is a candidate again.
C20_ClearJoinedResets ==
    [][(main'.op = "clear_joined" /\ query' = None) =>
          /\ joined_meetings' = {}
          /\ meetings' = meetings
          /\ Queries(meetings', joined_meetings', settings', now')
               = Queries(meetings, {}, settings, now)
          /\ \A i \in 1..Len(meetings) :
                (meetings[i].call_id \in joined_meetings /\ IsCandidate(meetings[i]))
                => calculate_next_trigger(meetings', joined_meetings', settings', now') # None ]_vars

\* after clear_joined the trigger is a meeting that was joined before it
C20_Witness ==
    /\ main.op = "clear_joined"
    /\ joined_meetings = {}
    /\ query # None
    /\ query[1].trigger # None
    /\ query[1].trigger[1].meeting.call_id \in main.arg[1]

\* C33: for a single meeting that is not joined, not excluded by its title
\* and whose starts_in_minutes is consistent with its begin time
\* (begin_time = now + starts_in_minutes minutes), calculate_next_trigger
\* returns it with delay 0 if and only if should_join_now returns it.
C33_TriggerAgreesWithJoinNow ==
    ( /\ query # None
      /\ Len(meetings) = 1
      /\ meetings[1].call_id \notin joined_meetings
      /\ ~TitleExcluded(meetings[1], settings)
      /\ meetings[1].begin_time = now + meetings[1].starts_in_minutes * MsPerMinute )
    => ( query[1].trigger = Some([meeting |-> meetings[1], delay_ms |-> 0])
           <=> query[1].join_now = Some(meetings[1]) )

-----------------------------------------------------------------------------
(* Claims about the DaemonState object, under SpecStore *)

\* C21: update_meetings(L) replaces the stored list wholesale: afterwards
\* get_meetings() is L, element for element and in the same order, with
\* nothing of the previous list merged in, and the joined set and the running
\* flag are as they were.
C21_UpdateReplacesList ==
    [][(main'.op = "update_meetings" /\ query' = None) =>
          /\ get_meetings(meetings') = main'.arg[1]
          /\ joined_meetings' = joined_meetings
          /\ running' = running ]_vars

\* a list with one meeting has replaced a list with another one, with the
\* daemon running and a meeting joined
C21_Witness ==
    /\ main.op = "update_meetings"
    /\ query = None
    /\ Len(meetings) = 1
    /\ meetings = main.arg[1]
    /\ meetings[1].call_id = "b"
    /\ joined_meetings = {"a"}
    /\ running

\* C27: the three queries are pure: running them leaves the meeting list, the
\* joined set, the suppressed map and the running flag unchanged, and their
\* results are those of the current (meetings, joined, settings, now),
\* whatever was applied or computed before.
C27_QueriesArePure ==
    [][(query = None /\ query' # None) =>
          /\ meetings' = meetings
          /\ joined_meetings' = joined_meetings
          /\ suppressed_meetings' = suppressed_meetings
          /\ running' = running
          /\ query'[1] = Queries(meetings', joined_meetings', settings', now')
          /\ query'[1] = Queries(meetings, joined_meetings, settings, now) ]_vars

\* the queries have run a second time, after a meeting was marked joined,
\* and return the other meeting
C27_Witness ==
    /\ main.op = "mark_joined"
    /\ query # None
    /\ Len(meetings) = 2
    /\ joined_meetings = {main.arg[1]}
    /\ query[1].trigger # None
    /\ query[1].next # None
    /\ query[1].next[1].call_id \notin joined_meetings

\* C28: a new DaemonState is not running; a start leaves is_running() true, a
\* stop leaves it false, no other method changes it (so it is true iff the
\* last of the start and stop calls was a start), and start and stop change
\* neither the meeting list nor the joined set.
C28_RunningFollowsStartStop ==
    [][ /\ main.op = "none" => ~is_running(running)
        /\ main'.op = "start" => is_running(running')
        /\ main'.op = "stop" => ~is_running(running')
        /\ main'.op \notin {"start", "stop"} => running' = running
        /\ (main'.op \in {"start", "stop"} /\ query' = None) =>
              /\ meetings' = meetings
              /\ joined_meetings' = joined_meetings ]_vars

\* stopped again after having run, with a list and a joined meeting in the store
C28_Witness ==
    /\ main.op = "stop"
    /\ ~running
    /\ meetings # <<>>
    /\ joined_meetings # {}

-----------------------------------------------------------------------------
(* Claims about new-window requests, under SpecUrl *)

\* the path is /lookup/ followed by a key: something other than slashes
\* comes after the prefix
C30_LookupPath(path) ==
    /\ Len(path) > 8
    /\ \A k \in 1..8 : path[k] = LookupPrefix[k]
    /\ \E k \in 9..Len(path) : path[k] # "/"

\* the path is a 3-4-3 code: between its leading and its trailing slashes
\* stand three alphanumerics, a dash, four alphanumerics, a dash and three
\* alphanumerics
C30_CodePath(path) ==
    \E first \in 1..Len(path) :
        /\ first + 11 <= Len(path)
        /\ \A k \in 1..Len(path) :
             \/ (k < first \/ k > first + 11) /\ path[k] = "/"
             \/ k - first \in {0, 1, 2, 4, 5, 6, 7, 9, 10, 11} /\ path[k] \in AsciiAlphanumeric
             \/ k - first \in {3, 8} /\ path[k] = "-"

C30_MeetingUrl(url) ==
    /\ url.host = Some(MeetHost)
    /\ C30_LookupPath(url.path) \/ C30_CodePath(url.path)

\* C30: should_open_external(current, target) is true exactly when current
\* is a Meet meeting URL (host meet.google.com, and a path that is a
\* /lookup/ path or a 3-4-3 alphanumeric code with dashes, slashes around
\* the code and at the end of the path not counting) and target's host is
\* not meet.google.com; from the Meet home page and from every other
\* non-meeting page it is false for every target.
C30_ExternalIffFromMeeting ==
    query # None =>
        /\ query[1].external
             = (C30_MeetingUrl(query[1].current_url) /\ query[1].url.host # Some(MeetHost))
        /\ ~C30_MeetingUrl(query[1].current_url) => ~query[1].external

\* a link to another host requested from a meeting page whose path has a
\* trailing slash: it is opened externally
C30_Witness ==
    /\ query # None
    /\ query[1].current_url = MkUrl("https", Some(MeetHost), <<"/">> \o MeetingCode \o <<"/">>)
    /\ query[1].url.host = Some("example.com")
    /\ query[1].external
    /\ query[1].response = "open_url"

-----------------------------------------------------------------------------
(* Claims about tray titles, under SpecTitle *)

\* C31: truncate_title(title, max_len) never returns more than max_len
\* characters; a title of at most max_len characters is returned unchanged;
\* a longer one, for max_len > 3, comes back as its first max_len - 3
\* characters followed by "..."; lengths are counted in characters, not in
\* bytes.
C31_TruncateTitle ==
    query # None =>
        LET title == query[1].title
            max_len == query[1].max_len
            result == query[1].result
        IN  /\ Len(result) <= max_len
            /\ Len(title) <= max_len => result = title
            /\ (Len(title) > max_len /\ max_len > 3) =>
                  /\ Len(result) = max_len
                  /\ \A k \in 1..(max_len - 3) : result[k] = title[k]
                  /\ \A k \in (max_len - 2)..max_len : result[k] = "."

\* a title of multi-byte characters that fits in characters but not in
\* bytes is returned unchanged, as in the unit test's title cut to 4
C31_Witness ==
    /\ query # None
    /\ query[1].title = <<Hui, Hui, Hui, Hui>>
    /\ query[1].max_len = 4
    /\ query[1].result = query[1].title

-----------------------------------------------------------------------------
(* Claims about the mutexes, under SpecLocks *)

\* the thread is inside lock() on a mutex that another guard holds
Blocked(t) == AtStep(t, "lock") /\ mutex[NextMutex(t)] # None

\* a set of threads each of which waits for a mutex held by one of them
Deadlocked ==
    \E S \in SUBSET ThreadIds :
        /\ S # {}
        /\ \A t \in S : Blocked(t) /\ mutex[NextMutex(t)] \in S

\* daemon before settings, and daemon before join_trigger_handle before logger
C36_Order ==
    { <<"daemon", "settings">>, <<"daemon", "join_trigger_handle">>,
      <<"daemon", "logger">>, <<"join_trigger_handle", "logger">> }

\* C36: no interleaving of the command handlers, schedule_join_trigger, the
\* timer handlers and the check loop deadlocks on the four mutexes, and
\* every thread that holds one of them while it acquires another does so in
\* the order daemon before settings, daemon before join_trigger_handle
\* before logger.
C36_NoDeadlock ==
    /\ ~Deadlocked
    /\ \A t \in ThreadIds : \A i, j \in 1..Len(threads[t].held) :
           i < j => <<threads[t].held[i], threads[t].held[j]>> \in C36_Order

\* the main thread writes the trigger.cancelled log holding the daemon, the
\* handle and the logger guards, while a timer task waits for the daemon
\* mutex and the check loop for the logger mutex
C36_Witness ==
    /\ threads[<<"main", 0>>].held = <<"daemon", "join_trigger_handle", "logger">>
    /\ Blocked(<<"timer", 1>>)
    /\ NextMutex(<<"timer", 1>>) = "daemon"
    /\ Blocked(<<"check", 0>>)
    /\ NextMutex(<<"check", 0>>) = "logger"

-----------------------------------------------------------------------------
(* Claims about the rate limiter of the log manager, under SpecLog *)

\* call i is for a Debug or Trace entry of a rate-limited pair
Limited(i) ==
    rate_limit_window_ms(log_calls[i].entry.level, log_calls[i].entry.module,
                         log_calls[i].entry.event) # None

SameKey(i, j) == RateLimitKey(log_calls[i].entry) = RateLimitKey(log_calls[j].entry)

\* the call passed the rate limiter and went on to the file writer
Accepted(i) == log_calls[i].outcome \in {"written", "io_error"}

\* the call got as far as the rate limiter: collection on, level allowed
Reached(i) == log_calls[i].outcome \notin {"disabled", "filtered"}

\* the greatest element of a set of call numbers, 0 for the empty set
Latest(S) == IF S = {} THEN 0 ELSE CHOOSE i \in S : \A j \in S : j <= i

\* the last call before i, for the key of i, that passed the rate limiter
PrevAccepted(i) ==
    Latest({ j \in 1..(i - 1) : Limited(j) /\ SameKey(j, i) /\ Accepted(j) })

\* the last call before i, for the key of i, whose entry was written
PrevWritten(i) ==
    Latest({ j \in 1..(i - 1) :
               Limited(j) /\ SameKey(j, i) /\ log_calls[j].outcome = "written" })

\* the calls between j and i, for the key of i, that the rate limiter dropped
RateLimitedBetween(j, i) ==
    { k \in (j + 1)..(i - 1) :
        Limited(k) /\ SameKey(k, i) /\ log_calls[k].outcome = "rate_limited" }

\* the calls between j and i, for the key of i, whose entry was not written
NotWrittenBetween(j, i) ==
    { k \in (j + 1)..(i - 1) :
        Limited(k) /\ SameKey(k, i) /\ log_calls[k].outcome # "written" }

\* the written line has an object context with the field suppressed = n
CarriesSuppressed(line, n) ==
    /\ line.context # None
    /\ line.context[1].kind = "object"
    /\ "suppressed" \in DOMAIN line.context[1].value
    /\ line.context[1].value["suppressed"] = Num(n)

\* C37 as stated: the next entry written for a key after an entry written
\* at t > 0 carries a context field suppressed equal to the number of
\* entries for that key dropped since that entry.
C37_NextWrittenCarriesCount ==
    \A i \in 1..Len(log_calls) :
        (/\ Limited(i)
         /\ log_calls[i].outcome = "written"
         /\ PrevWritten(i) > 0
         /\ log_calls[PrevWritten(i)].entry.ts_ms > 0)
        => CarriesSuppressed(log_calls[i].line[1],
                             Cardinality(NotWrittenBetween(PrevWritten(i), i)))

\* C37: among the Debug and Trace entries of a rate-limited pair that reach
\* the rate limiter (collection enabled, level allowed), per key: an entry
\* is dropped exactly when the last entry that passed the limiter for the
\* key has a timestamp t > 0 and ts - t (saturating) is below 30000; an
\* entry that passes and is written carries suppressed = n when n > 0
\* entries were dropped by the limiter since the last one that passed, and
\* its sanitized context without any added field when n = 0; the manager's
\* counter for a key is the number dropped since the last entry that
\* passed, whether or not that entry reached the file; no other entry is
\* ever dropped by the rate limiter.
C37_RateLimit ==
    /\ \A i \in 1..Len(log_calls) :
         LET e == log_calls[i].entry
             j == PrevAccepted(i)
             n == Cardinality(RateLimitedBetween(j, i))
         IN  /\ ~Limited(i) => log_calls[i].outcome # "rate_limited"
             /\ (Limited(i) /\ Reached(i)) =>
                  /\ log_calls[i].outcome = "rate_limited"
                       <=> /\ j > 0
                           /\ log_calls[j].entry.ts_ms > 0
                           /\ SaturatingSub(e.ts_ms, log_calls[j].entry.ts_ms) < RateLimitMs
                  /\ log_calls[i].outcome = "written" =>
                       IF n > 0 THEN CarriesSuppressed(log_calls[i].line[1], n)
                       ELSE log_calls[i].line[1] = sanitize_entry(e)
    /\ \A key \in DOMAIN logger.rate_limits :
         LET j == Latest({ i \in 1..Len(log_calls) :
                             /\ Limited(i)
                             /\ RateLimitKey(log_calls[i].entry) = key
                             /\ Accepted(i) })
         IN  /\ j > 0
             /\ logger.rate_limits[key].last_ts_ms = log_calls[j].entry.ts_ms
             /\ logger.rate_limits[key].suppressed =
                  Cardinality({ k \in (j + 1)..Len(log_calls) :
                                  /\ Limited(k)
                                  /\ RateLimitKey(log_calls[k].entry) = key
                                  /\ log_calls[k].outcome = "rate_limited" })

\* the WebView's Trace parse.result is written at 1000, dropped at 30999 and
\* written at 31000 with its string context wrapped and suppressed = 1
C37_Witness ==
    /\ Len(log_calls) = 3
    /\ \A i \in 1..3 : log_calls[i].entry.level = "Trace"
    /\ log_calls[1].outcome = "written"
    /\ log_calls[1].entry.ts_ms = LogNow
    /\ log_calls[2].outcome = "rate_limited"
    /\ log_calls[2].entry.ts_ms = LogNow + RateLimitMs - 1
    /\ log_calls[3].outcome = "written"
    /\ log_calls[3].entry.ts_ms = LogNow + RateLimitMs
    /\ log_calls[3].line[1].context =
         Some(Obj(MapInsert(MapInsert(<<>>, "context", Str(<<"o", "k">>)),
                            "suppressed", Num(1))))
    /\ logger.rate_limits[RateLimitKey(log_calls[3].entry)].suppressed = 0

-----------------------------------------------------------------------------
(* Claims about the check loop, under SpecCheck *)

\* the step emits check-meetings
EmitsCheck == check_loop'.emitted # check_loop.emitted \/ check_loop'.check_id # check_loop.check_id

\* what the loop does in one step, whatever the running flag is
C38_LoopStep ==
    /\ EmitsCheck =>
         /\ check_loop'.check_id = check_loop.check_id + 1
         /\ check_loop'.emitted # None
         /\ check_loop'.emitted[1].payload.check_id = check_loop'.check_id
         /\ check_loop'.emitted[1].payload.interval_seconds = check_loop.interval_seconds
         /\ check_loop.emitted # None =>
              /\ check_loop.emitted[1].payload.interval_seconds >= 1
              /\ now - check_loop.emitted[1].payload.emitted_at_ms
                   >= 1000 * check_loop.emitted[1].payload.interval_seconds
    /\ (check_loop.pc = "read" /\ check_loop'.pc # "read") =>
         /\ check_loop'.pc = "emit"
         /\ check_loop'.interval_seconds =
              (IF settings.check_interval_seconds = 0 THEN 1
               ELSE settings.check_interval_seconds)
    /\ (check_loop.pc = "sleep" /\ check_loop'.pc # "sleep") =>
         /\ check_loop'.pc = "asleep"
         /\ check_loop.interval_seconds >= 1
         /\ check_loop'.wake_at = now + 1000 * check_loop.interval_seconds
    /\ running' # running => check_loop' = check_loop

\* the loop is at one of its four positions and its next step is enabled
\* there, a sleeping loop once its deadline has passed
C38_LoopAlive ==
    /\ check_loop.pc \in {"read", "emit", "sleep", "asleep"}
    /\ check_loop.pc = "read" => ENABLED CheckRead
    /\ check_loop.pc = "emit" => ENABLED CheckEmit
    /\ check_loop.pc = "sleep" => ENABLED CheckSleep
    /\ (check_loop.pc = "asleep" /\ now >= check_loop.wake_at) => ENABLED CheckWake
    /\ check_loop.emitted = None <=> check_loop.check_id = 0

\* C38: the check loop numbers its check-meetings emissions 1, 2, 3, ...,
\* one more with every emission whether or not it is delivered; the sleep
\* of an iteration is the check_interval_seconds read at the start of that
\* iteration, with 0 replaced by 1, so two emissions are at least that long
\* and at least one second apart; the loop has no exit, and none of its
\* steps depends on the daemon's running flag.
C38_CheckLoop == []C38_LoopAlive /\ [][C38_LoopStep]_vars

\* the daemon is stopped, the configured interval is 0 and was read as 1,
\* the second emission failed, and the third one has been made
C38_Witness ==
    /\ ~running
    /\ settings.check_interval_seconds = 0
    /\ check_loop.check_id = 3
    /\ check_loop.emitted # None
    /\ check_loop.emitted[1].payload.check_id = 3
    /\ check_loop.emitted[1].payload.interval_seconds = 1
    /\ ~check_loop.emitted[1].delivered
    /\ check_loop.emitted[1].payload.emitted_at_ms = 2000

=============================================================================
